---- MODULE Spec2Model ----
(***************************************************************************)
(* Connectivity provisioning and session core of the ESP32-S3 board        *)
(* firmware (src/main/board.c, src/main/main.c).                           *)
(*                                                                         *)
(* The module holds three sub-systems that share the global event group:   *)
(*   - the credential store (NVS namespace "wifi_config"),                 *)
(*   - the captive-portal DNS responder started by the SoftAP service,     *)
(*   - the WebSocket session event handler with its quiet-period timer.    *)
(* Each has its own specification (SpecStore, SpecDns, SpecSession) over   *)
(* the same variables.                                                     *)
(***************************************************************************)
EXTENDS Integers, Sequences, FiniteSets, TLC

VARIABLES
    nvs,          \* NVS namespace "wifi_config": the ssid and password keys
    bits,         \* board_event_group: the set of event bits that are set
    lastOp,       \* the operation that ran last
    saveArgs,     \* arguments of the last board_wifi_save_config call
    saveFault,    \* storage step that failed in the last save call
    saveRet,      \* return value of the last board_wifi_save_config call
    cfgOut,       \* result of the last board_wifi_has_valid_config call
    erased,       \* a factory-reset erase has completed, no successful save since
    softap,       \* SoftAP provisioning service: "stopped" or "active"
    dnsTask,      \* dns_server_task: "none", "recv", "delay" or "exited"
    dnsRx,        \* the datagram handed over by the last recvfrom
    dnsGen,       \* how the sender built that datagram
    dnsLen,       \* return value of the last recvfrom
    dnsOut,       \* what the responder sent for the last recvfrom
    dnsErrAfterStop, \* recvfrom has returned an error after softap_stop
    first_connection, \* main.c: static bool first_connection
    reset_timer,  \* main.c: the one-shot timer: created, active, ticks left
    wsLink,       \* state of the backend connection as the client library sees it
    s_system_state,   \* main.c: s_system_state
    wsSent,       \* the text messages sent by the last handler run, in order
    connCount,    \* number of Connected events handled since boot
    lastFired,    \* the last Connected event played the onboarding announcement
    lastInQuiet,  \* the last Connected event came within the quiet period of the
                  \* outage before it
    sinceDisc,    \* ticks since the last Disconnected event (saturating)
    sinceDown,    \* ticks since the session became disconnected (saturating)
    lastEvent,    \* the session event handled last
    lastMsg,      \* the inbound message of the last WEBSOCKET_EVENT_DATA
    lastCalls,    \* record, play and restart calls made while handling it
    recSeconds,   \* seconds passed to start_audio_recording for it (0: no call)
    recMs,        \* timeout passed to board_audio_record for it (0: no call)
    s_wifi_event_group, \* board.c: the station's private event group exists
    staBits,      \* the bits set in s_wifi_event_group
    s_wifi_retry_num,   \* board.c: s_wifi_retry_num
    staHandlers,  \* registrations of wifi_sta_event_handler per event
    staNetif,     \* number of default station interfaces
    staStarts,    \* calls of esp_wifi_start in station mode (saturating at 2)
    staLink,      \* the radio: "idle", "connecting" or "up"
    evtPc,        \* the event-loop task: "idle", or inside the got-IP handler
    discRun,      \* disconnect events since init without an IP acquisition
    everGotIp,    \* an IP address was acquired since init
    lateConnect,  \* a disconnect handler called esp_wifi_connect after WifiFailed
    lastBackoff,  \* delay in ms slept by the last disconnect handler (0: none)
    initCalls,    \* calls of board_wifi_sta_init in this boot (saturating at 2)
    initRet,      \* what the last board_wifi_sta_init call returned
    wsObjects,    \* session client objects created and not destroyed
    cfgPoll,      \* the provisioning loop of app_main: "first", "delay" or "wait"
    monPoll,      \* the loop of factory_reset_monitor_task, likewise
    waitPc,       \* board_wifi_sta_wait_connected: "idle", "waiting", "returned"
    waitTimeout,  \* its timeout_ms argument, in ticks (0: wait for ever)
    waitLeft,     \* ticks left before the wait times out
    waitRet,      \* its return value
    waitSnap,     \* the bits xEventGroupWaitBits returned
    waited,       \* the call blocked in xEventGroupWaitBits
    orchPc,       \* app_main: the statement it is at
    s_ws_client,  \* main.c: s_ws_client is not NULL
    monitorPc,    \* factory_reset_monitor_task: "none", "wait" or "handle"
    resetTaskPc,  \* board_factory_reset_task: "none", "run" or "delay"
    lastRestart,  \* what restarted the chip last: the cause of this boot
    frAsked,      \* a factory reset was asked for in this boot
    softapCalled, \* app_main has called board_wifi_softap_start in this boot
    wsInitRes,    \* how the first init_websocket_connection of this boot ended
    httpServer,   \* board.c: s_config_server_handle is not NULL
    httpLast,     \* the last HTTP request and what the server did with it
    s_audio_buffer,      \* main.c: s_audio_buffer is not NULL
    s_audio_buffer_size  \* main.c: s_audio_buffer_size

storeVars == <<nvs, lastOp, saveArgs, saveFault, saveRet, cfgOut, erased>>
dnsVars == <<softap, dnsTask, dnsRx, dnsGen, dnsLen, dnsOut, dnsErrAfterStop>>
sessVars == <<first_connection, reset_timer, wsLink, s_system_state, wsSent,
              connCount, lastFired, lastInQuiet, sinceDisc, sinceDown, lastEvent,
              lastMsg, lastCalls, recSeconds, recMs>>
dataVars == <<lastMsg, lastCalls, recSeconds, recMs>>
staVars == <<s_wifi_event_group, staBits, s_wifi_retry_num, staHandlers, staNetif,
             staStarts, staLink, evtPc, discRun, everGotIp, lateConnect,
             lastBackoff, initCalls, initRet>>
waitVars == <<waitPc, waitTimeout, waitLeft, waitRet, waitSnap, waited>>
orchVars == <<orchPc, s_ws_client, monitorPc, resetTaskPc,
              lastRestart, frAsked, softapCalled, wsInitRes>>
httpVars == <<httpServer, httpLast>>
audioVars == <<s_audio_buffer, s_audio_buffer_size>>
taskVars == <<wsObjects, cfgPoll, monPoll>>
vars == <<storeVars, bits, dnsVars, sessVars, staVars, waitVars, orchVars,
          httpVars, audioVars, taskVars>>

(***************************************************************************)
(* Bounds of the model                                                     *)
(***************************************************************************)
\* number of distinct characters used to build credential strings
NumChars == 2
\* largest number of labels in a generated DNS question
MaxLabels == 3
\* largest number of Connected events followed in one boot
MaxConn == 3
\* the quiet period of 30 s, counted in ticks of the model's clock
QuietTicks == 3
\* disconnect events followed beyond BOARD_WIFI_MAX_RETRY
ExtraDisc == 2
\* a non-zero timeout of board_wifi_sta_wait_connected, in ticks
WaitTicks == 2

(***************************************************************************)
(* Program constants                                                       *)
(***************************************************************************)
MaxSsidLen == 32
MaxPassLen == 64
DnsHeaderLen == 12
DnsQuestionLimit == 64
DnsRxSize == 128
DnsTtl == 10
BOARD_WIFI_MAX_RETRY == 5
BOARD_WS_DEVICE_CLIENT_ID == "CONFIG_WS_DEVICE_CLIENT_ID"
DefaultRecordSeconds == 5
MinRecordSeconds == 1
MaxRecordSeconds == 60
DefaultPcmId == 1
IntMax == 2147483647
BackoffBaseMs == 500
\* CONFIG_AUDIO_BUFFER_SIZE, counted in allocation units
BOARD_AUDIO_BUFFER_SIZE == 4
HttpRxSize == 128
SsidBufSize == 33
PassBufSize == 65

\* board.h event bits
WIFI_CONNECTED_BIT == "WIFI_CONNECTED_BIT"
WIFI_FAIL_BIT == "WIFI_FAIL_BIT"
WIFI_CONFIG_SAVED_BIT == "WIFI_CONFIG_SAVED_BIT"
FACTORY_RESET_BIT == "FACTORY_RESET_BIT"
WEBSOCKET_CONNECTED_BIT == "WEBSOCKET_CONNECTED_BIT"
WEBSOCKET_DISCONNECTED_BIT == "WEBSOCKET_DISCONNECTED_BIT"
AllBits == {WIFI_CONNECTED_BIT, WIFI_FAIL_BIT, WIFI_CONFIG_SAVED_BIT,
            FACTORY_RESET_BIT, WEBSOCKET_CONNECTED_BIT, WEBSOCKET_DISCONNECTED_BIT}

(***************************************************************************)
(* Strings: a C string is the sequence of its bytes before the NUL.        *)
(***************************************************************************)
Rep(c, n) == [i \in 1..n |-> c]

Min(a, b) == IF a < b THEN a ELSE b

\* lengths around the limits of the two fields
SsidLens == {0, 1, MaxSsidLen, MaxSsidLen + 1}
PassLens == {0, MaxPassLen, MaxPassLen + 1}
SsidChars == 97..(96 + NumChars)
PassChars == {65}
SsidInputs == {Rep(c, n) : c \in SsidChars, n \in SsidLens}
PassInputs == {Rep(c, n) : c \in PassChars, n \in PassLens}

(***************************************************************************)
(* Credential store                                                        *)
(***************************************************************************)
NoKey == [present |-> FALSE, val |-> <<>>]
Key(s) == [present |-> TRUE, val |-> s]
EmptyNvs == [ssid |-> NoKey, password |-> NoKey]

\* the caller's output buffers before a call: zeroed
NoCfg == [ret |-> FALSE, ssid |-> <<>>, password |-> <<>>]

\* nvs_get_str(handle, key, NULL, &len): the required length counts the NUL
nvs_get_str_len(entry) ==
    IF entry.present
    THEN [ret |-> "ESP_OK", len |-> Len(entry.val) + 1]
    ELSE [ret |-> "ESP_ERR_NVS_NOT_FOUND", len |-> 0]

\* board_wifi_has_valid_config(ssid, password) on a given namespace
board_wifi_has_valid_config(store) ==
    LET s == nvs_get_str_len(store.ssid)
        p == nvs_get_str_len(store.password)
    IN  IF s.ret # "ESP_OK" \/ s.len = 0 \/ s.len > MaxSsidLen
        THEN NoCfg
        ELSE IF p.ret # "ESP_OK" \/ p.len > MaxPassLen
        THEN NoCfg
        ELSE [ret |-> TRUE, ssid |-> store.ssid.val, password |-> store.password.val]

\* a validation that lets an over-long field through
SaveArgsInvalid_Loose(ssid, password) ==
    \/ Len(ssid) = 0
    \/ Len(ssid) > MaxSsidLen + 1
    \/ Len(password) > MaxPassLen + 1

\* board_wifi_save_config: the argument checks
SaveArgsInvalid(ssid, password) ==
    \/ Len(ssid) = 0
    \/ Len(ssid) > MaxSsidLen
    \/ Len(password) > MaxPassLen

SaveFaults == {"none", "open", "ssid", "password", "commit"}

\* board_wifi_save_config(ssid, password) on namespace st with event bits b;
\* fault names the storage call that fails
board_wifi_save_config(st, b, ssid, password, fault) ==
    IF SaveArgsInvalid(ssid, password)
    THEN [ret |-> "ESP_ERR_INVALID_ARG", nvs |-> st, bits |-> b]
    ELSE IF fault = "open"
    THEN [ret |-> "ESP_FAIL", nvs |-> st, bits |-> b]
    ELSE IF fault = "ssid"
    THEN [ret |-> "ESP_FAIL", nvs |-> st, bits |-> b]
    ELSE IF fault = "password"
    THEN [ret |-> "ESP_FAIL", nvs |-> [st EXCEPT !.ssid = Key(ssid)], bits |-> b]
    ELSE IF fault = "commit"
    THEN [ret |-> "ESP_FAIL",
          nvs |-> [ssid |-> Key(ssid), password |-> Key(password)], bits |-> b]
    ELSE [ret |-> "ESP_OK",
          nvs |-> [ssid |-> Key(ssid), password |-> Key(password)],
          bits |-> b \cup {WIFI_CONFIG_SAVED_BIT}]

SaveConfig ==
    \E ssid \in SsidInputs, password \in PassInputs, fault \in SaveFaults :
        LET r == board_wifi_save_config(nvs, bits, ssid, password, fault)
        IN  /\ nvs' = r.nvs
            /\ bits' = r.bits
            /\ saveRet' = r.ret
            /\ saveArgs' = [ssid |-> ssid, password |-> password]
            /\ saveFault' = fault
            /\ erased' = IF r.ret = "ESP_OK" THEN FALSE ELSE erased
            /\ lastOp' = "save"
            /\ cfgOut' = NoCfg
            /\ UNCHANGED <<dnsVars, sessVars, staVars, waitVars, orchVars>>
    /\ UNCHANGED <<httpVars, audioVars, taskVars>>

HasValidConfig ==
    /\ cfgOut' = board_wifi_has_valid_config(nvs)
    /\ lastOp' = "has_valid"
    /\ UNCHANGED <<nvs, bits, saveArgs, saveFault, saveRet, erased,
                   dnsVars, sessVars, staVars, waitVars, orchVars>>
    /\ UNCHANGED <<httpVars, audioVars, taskVars>>

ResetFaults == {"none", "open", "erase_ssid", "erase_password"}

\* board_factory_reset_task: the namespace it leaves behind
factory_reset_erase(st, fault) ==
    IF fault = "open" THEN st
    ELSE [ssid |-> IF fault = "erase_ssid" THEN st.ssid ELSE NoKey,
          password |-> IF fault = "erase_password" THEN st.password ELSE NoKey]

\* board_factory_reset_task, up to and including esp_restart
FactoryReset ==
    \E fault \in ResetFaults :
        /\ nvs' = factory_reset_erase(nvs, fault)
        /\ bits' = {}
        /\ erased' = (fault = "none")
        /\ lastOp' = "factory_reset"
        /\ cfgOut' = NoCfg
        /\ UNCHANGED <<saveArgs, saveFault, saveRet, dnsVars, sessVars, staVars, waitVars, orchVars>>
    /\ UNCHANGED <<httpVars, audioVars, taskVars>>


(***************************************************************************)
(* Captive-portal DNS responder                                            *)
(***************************************************************************)
\* the access point's IPv4 address held in ip_info.ip, in network byte order
ApIp == <<192, 168, 4, 1>>

\* rx_buffer[i] (0-based) after memset and a recvfrom that returned datagram d
Rx(d, i) == IF i < Len(d) THEN d[i + 1] ELSE 0

\* the label-skipping loop: from offset q to the offset where it stops
RECURSIVE SkipLabels(_, _, _)
SkipLabels(d, len, q) ==
    IF q < len /\ Rx(d, q) # 0
    THEN SkipLabels(d, len, q + Rx(d, q) + 1)
    ELSE q

\* question_end: past the labels, the zero byte, the type and the class
QuestionEnd(d, len) == SkipLabels(d, len, DnsHeaderLen) + 5

\* the answer record appended after the question
AnswerRecord == <<192, 12, 0, 1, 0, 1, 0, 0, 0, DnsTtl, 0, 4>> \o ApIp

\* a reply header that keeps the template's id bytes
ReplyHeader_NoId(d) == <<0, 0, 129, 128, 0, 1, 0, 1, 0, 0, 0, 0>>

\* dns_reply[0..11] once the request id has been copied in
ReplyHeader(d) == <<Rx(d, 0), Rx(d, 1), 129, 128, 0, 1, 0, 1, 0, 0, 0, 0>>

\* response[0 .. answer_offset-1] as handed to sendto
BuildReply(d, qe) ==
    ReplyHeader(d) \o [i \in 1..(qe - DnsHeaderLen) |-> Rx(d, DnsHeaderLen + i - 1)]
                   \o AnswerRecord

NoReply == [n |-> 0, pkt |-> <<>>]
Sent(pkt) == [n |-> 1, pkt |-> pkt]

\* a handler that answers without looking at the received length
DnsHandle_NoLenCheck(d, len) ==
    LET qe == QuestionEnd(d, len)
    IN  IF qe <= DnsQuestionLimit THEN Sent(BuildReply(d, qe)) ELSE NoReply

\* a handler that does not check that the question lies inside the datagram
DnsHandle_NoContainCheck(d, len) ==
    IF len < DnsHeaderLen THEN NoReply
    ELSE LET qe == QuestionEnd(d, len)
         IN  IF qe <= DnsQuestionLimit THEN Sent(BuildReply(d, qe)) ELSE NoReply

\* one iteration of the receive loop after recvfrom returned len
DnsHandle(d, len) ==
    IF len < DnsHeaderLen THEN NoReply
    ELSE LET qe == QuestionEnd(d, len)
         IN  IF qe <= len /\ qe <= DnsQuestionLimit
             THEN Sent(BuildReply(d, qe))
             ELSE NoReply

\* --- the buffer indices one iteration touches --------------------------
\* sizeof(domain) and sizeof(response)
DomainSize == 64
DnsResponseSize == 128

\* rx_buffer indices read by the label-skipping loop started at offset q
RECURSIVE SkipReads(_, _, _)
SkipReads(d, len, q) ==
    IF q < len
    THEN {q} \cup (IF Rx(d, q) # 0
                   THEN SkipReads(d, len, q + Rx(d, q) + 1) ELSE {})
    ELSE {}

\* a name-extraction loop that copies every label whole
RECURSIVE DomainScan_NoRoomCheck(_, _, _, _)
DomainScan_NoRoomCheck(d, len, pos, i) ==
    IF pos < len /\ Rx(d, pos) # 0 /\ i < DomainSize - 1
    THEN LET label_len == Rx(d, pos)
             dot == i > 0 /\ i < DomainSize - 1
             i1 == IF dot THEN i + 1 ELSE i
             n == label_len
             rest == DomainScan_NoRoomCheck(d, len, pos + 1 + n, i1 + n)
         IN  [rx |-> {pos} \cup ((pos + 1)..(pos + n)) \cup rest.rx,
              dom |-> (IF dot THEN {i} ELSE {}) \cup (i1..(i1 + n - 1))
                          \cup rest.dom]
    ELSE [rx |-> IF pos < len THEN {pos} ELSE {}, dom |-> {i}]

\* the name-extraction loop from domain_pos = pos and i: the rx_buffer
\* indices it reads and the domain indices it writes, the final
\* domain[i] = 0 included
RECURSIVE DomainScan(_, _, _, _)
DomainScan(d, len, pos, i) ==
    IF pos < len /\ Rx(d, pos) # 0 /\ i < DomainSize - 1
    THEN LET label_len == Rx(d, pos)
             dot == i > 0 /\ i < DomainSize - 1
             i1 == IF dot THEN i + 1 ELSE i
             n == Min(label_len, DomainSize - 1 - i1)
             rest == DomainScan(d, len, pos + 1 + n, i1 + n)
         IN  [rx |-> {pos} \cup ((pos + 1)..(pos + n)) \cup rest.rx,
              dom |-> (IF dot THEN {i} ELSE {}) \cup (i1..(i1 + n - 1))
                          \cup rest.dom]
    ELSE [rx |-> IF pos < len THEN {pos} ELSE {}, dom |-> {i}]

\* every index one iteration of the receive loop reads from rx_buffer and
\* writes in domain and in response
DnsAccess(d, len) ==
    IF len < DnsHeaderLen THEN [rx |-> {}, dom |-> {}, resp |-> {}]
    ELSE LET qe == QuestionEnd(d, len)
             scan == DomainScan(d, len, DnsHeaderLen, 0)
             reply == qe <= len /\ qe <= DnsQuestionLimit
         IN  [rx |-> {0, 1} \cup SkipReads(d, len, DnsHeaderLen) \cup scan.rx
                        \cup (IF reply THEN DnsHeaderLen..(qe - 1) ELSE {}),
              dom |-> scan.dom,
              resp |-> IF reply THEN 0..(qe + Len(AnswerRecord) - 1) ELSE {}]

\* --- the datagrams offered to the responder ---------------------------
LabelLens == {1, 20, 25, 26}
LabelSeqs == UNION {[1..n -> LabelLens] : n \in 0..MaxLabels}
QueryIds == {<<18, 52>>, <<171, 205>>}
\* bytes after the name: type A, class IN, then the start of a further record
AfterName == <<0, 1, 0, 1, 0, 0, 41>>
TailLens == {0, 4, 6}
\* added to the length byte of the last label (its content stays as it is)
Lies == {0, 40, 200}

RECURSIVE LabelBytes(_, _)
LabelBytes(ls, lie) ==
    IF ls = <<>> THEN <<>>
    ELSE IF Len(ls) = 1 THEN <<ls[1] + lie>> \o Rep(97, ls[1])
    ELSE <<ls[1]>> \o Rep(97, ls[1]) \o LabelBytes(Tail(ls), lie)

RECURSIVE SumLabels(_)
SumLabels(ls) == IF ls = <<>> THEN 0 ELSE ls[1] + 1 + SumLabels(Tail(ls))

QueryHeader(id) == id \o <<1, 0, 0, 1, 0, 0, 0, 0, 0, 0>>

FullQuery(g) ==
    QueryHeader(g.id) \o LabelBytes(g.labels, g.lie)
        \o (IF g.term THEN <<0>> ELSE <<>>) \o SubSeq(AfterName, 1, g.tail)

Keeps(n) == {0, 5, 11, 12, 13, n - 5, n - 1, n} \cap 0..n

\* what recvfrom copies into rx_buffer: at most sizeof(rx_buffer) bytes
Datagram(g) == SubSeq(FullQuery(g), 1, Min(g.keep, DnsRxSize))

NoGen == [id |-> <<0, 0>>, labels |-> <<>>, term |-> FALSE, tail |-> 0,
          lie |-> 0, keep |-> 0]

\* length of the question section the sender put into the datagram
QuestionLen(g) == SumLabels(g.labels) + 1 + 4

\* the sender built a complete, honest query and all of its question arrived
WellFormed(g) ==
    /\ g.term /\ g.lie = 0 /\ g.tail >= 4
    /\ g.keep >= DnsHeaderLen + QuestionLen(g)

\* the reply the protocol asks for
ExpectedReply(g) ==
    g.id \o <<129, 128, 0, 1, 0, 1, 0, 0, 0, 0>>
         \o LabelBytes(g.labels, 0) \o <<0, 0, 1, 0, 1>>
         \o <<192, 12, 0, 1, 0, 1, 0, 0, 0, 10, 0, 4>> \o ApIp

StartOutcomes == {"ok", "radio_fail", "http_fail", "no_task", "socket_fail"}

\* board_wifi_softap_start, with the start of dns_server_task up to its loop
SoftapStartBody(o) ==
    /\ softap' = IF o = "radio_fail" THEN "stopped" ELSE "active"
    /\ httpServer' = (o \notin {"radio_fail", "http_fail"})
    /\ dnsTask' = CASE o \in {"ok", "http_fail"} -> "recv"
                    [] o = "socket_fail" -> "exited"
                    [] OTHER -> "none"

SoftapStart ==
    /\ softap = "stopped" /\ dnsTask = "none"
    /\ \E o \in StartOutcomes : SoftapStartBody(o)
    /\ UNCHANGED <<dnsRx, dnsGen, dnsLen, dnsOut, dnsErrAfterStop,
                   storeVars, bits, sessVars, staVars, waitVars, orchVars>>
    /\ UNCHANGED <<httpLast, audioVars, taskVars>>

\* recvfrom returns a datagram; the rest of the loop body handles it
DnsRecv ==
    /\ dnsTask = "recv" /\ softap = "active"
    /\ \E id \in QueryIds, ls \in LabelSeqs, term \in BOOLEAN,
          tail \in TailLens, lie \in Lies :
        LET g0 == [id |-> id, labels |-> ls, term |-> term, tail |-> tail,
                   lie |-> IF ls = <<>> THEN 0 ELSE lie, keep |-> 0]
        IN  \E k \in Keeps(Len(FullQuery(g0))) :
              LET g == [g0 EXCEPT !.keep = k]
                  d == Datagram(g)
              IN  /\ dnsGen' = g
                  /\ dnsRx' = d
                  /\ dnsLen' = Len(d)
                  /\ dnsOut' = DnsHandle(d, Len(d))
    /\ dnsTask' = "delay"
    /\ UNCHANGED <<softap, dnsErrAfterStop, storeVars, bits, sessVars, staVars, waitVars, orchVars>>
    /\ UNCHANGED <<httpVars, audioVars, taskVars>>

\* datagrams that are no query: a header, one byte, then one byte repeated
RawLens == {0, 12, 13, 17, 64, 76, 128, 130}
RawBytes == {0, 1, 62, 63, 255}
RawDatagram(id, n, first, fill) ==
    SubSeq(QueryHeader(id) \o <<first>> \o Rep(fill, n), 1, Min(n, DnsRxSize))

\* recvfrom returns such a datagram; the rest of the loop body handles it
DnsRecvRaw ==
    /\ dnsTask = "recv" /\ softap = "active"
    /\ \E id \in QueryIds, n \in RawLens, first \in RawBytes, fill \in RawBytes :
          LET d == RawDatagram(id, n, first, fill)
          IN  /\ dnsGen' = NoGen
              /\ dnsRx' = d
              /\ dnsLen' = Len(d)
              /\ dnsOut' = DnsHandle(d, Len(d))
    /\ dnsTask' = "delay"
    /\ UNCHANGED <<softap, dnsErrAfterStop, storeVars, bits, sessVars, staVars, waitVars, orchVars>>
    /\ UNCHANGED <<httpVars, audioVars, taskVars>>

\* recvfrom returns -1; the loop body sees len < 12
DnsRecvError ==
    /\ dnsTask = "recv"
    /\ dnsGen' = NoGen
    /\ dnsRx' = <<>>
    /\ dnsLen' = -1
    /\ dnsOut' = DnsHandle(<<>>, -1)
    /\ dnsErrAfterStop' = (dnsErrAfterStop \/ softap = "stopped")
    /\ dnsTask' = "delay"
    /\ UNCHANGED <<softap, storeVars, bits, sessVars, staVars, waitVars, orchVars>>
    /\ UNCHANGED <<httpVars, audioVars, taskVars>>

\* vTaskDelay(1), then the top of the loop: memset and the next recvfrom
DnsLoop ==
    /\ dnsTask = "delay"
    /\ dnsTask' = "recv"
    /\ dnsGen' = NoGen
    /\ dnsRx' = <<>>
    /\ dnsLen' = 0
    /\ dnsOut' = NoReply
    /\ UNCHANGED <<softap, dnsErrAfterStop, storeVars, bits, sessVars, staVars, waitVars, orchVars>>
    /\ UNCHANGED <<httpVars, audioVars, taskVars>>

\* board_wifi_softap_stop: stop_http_server and esp_wifi_stop
SoftapStop ==
    /\ softap = "active"
    /\ softap' = "stopped"
    /\ httpServer' = FALSE
    /\ UNCHANGED <<dnsTask, dnsRx, dnsGen, dnsLen, dnsOut, dnsErrAfterStop,
                   storeVars, bits, sessVars, staVars, waitVars, orchVars,
                   httpLast, audioVars, taskVars>>


(***************************************************************************)
(* Provisioning HTTP server: start_http_server, captive_portal_handler and *)
(* http_server_set_wifi_config_handler                                     *)
(***************************************************************************)
\* the ASCII strings and characters the set-wifi handler looks for
SsidKey == <<115, 115, 105, 100, 61>>
PasswordKey == <<112, 97, 115, 115, 119, 111, 114, 100, 61>>
Amp == 38
Plus == 43
Space == 32

\* strstr(s, pat): the 1-based index of the first occurrence, 0 for NULL
StrStr(s, pat) ==
    LET hits == {i \in 1..(Len(s) - Len(pat) + 1) :
                     SubSeq(s, i, i + Len(pat) - 1) = pat}
    IN  IF hits = {} THEN 0 ELSE CHOOSE i \in hits : \A j \in hits : i <= j

\* strchr on the string that starts at index from of s
StrChr(s, from, c) ==
    LET hits == {i \in from..Len(s) : s[i] = c}
    IN  IF hits = {} THEN 0 ELSE CHOOSE i \in hits : \A j \in hits : i <= j

\* the string left in a zeroed buffer by strncpy(buffer, src, n)
StrNCpy(src, n) == SubSeq(src, 1, Min(Len(src), n))

\* the loops that turn every '+' into a space
PlusToSpace(s) == [i \in 1..Len(s) |-> IF s[i] = Plus THEN Space ELSE s[i]]

\* the parsing part of the handler on the received bytes buf: the two field
\* buffers as strings, and whether a write went past ssid[32]
ParseSetWifi(buf) ==
    LET si == StrStr(buf, SsidKey)
        ss == si + Len(SsidKey)
        se == IF si = 0 THEN 0 ELSE StrChr(buf, ss, Amp)
        ssid == IF si = 0 THEN <<>>
                ELSE IF se # 0 THEN SubSeq(buf, ss, se - 1)
                ELSE StrNCpy(SubSeq(buf, ss, Len(buf)), SsidBufSize - 1)
        pi == StrStr(buf, PasswordKey)
        password == IF pi = 0 THEN <<>>
                    ELSE StrNCpy(SubSeq(buf, pi + Len(PasswordKey), Len(buf)),
                                 PassBufSize - 1)
    IN  [ssid |-> PlusToSpace(ssid), password |-> PlusToSpace(password),
         overflow |-> (se # 0 /\ se - ss >= SsidBufSize)]

\* what httpd_req_recv hands to the handler
RecvOutcomes == {"data", "timeout", "error"}
\* the storage faults followed for a save made by the handler
HttpSaveFaults == {"none", "commit"}
\* what the write past the end of ssid[] can lead to
OverflowOutcomes == {"continue", "crash"}

\* httpd_req_recv(req, buf, sizeof(buf) - 1) on a request body
HttpRecv(body) == SubSeq(body, 1, Min(Len(body), HttpRxSize - 1))

\* http_server_set_wifi_config_handler with namespace st and event bits b,
\* when n bytes were received and p is what the parsing made of them
set_wifi_config_handler(n, p, st, b, rcv, fault, ub) ==
    LET quiet == [status |-> "none", nvs |-> st, bits |-> b, ssid |-> <<>>,
                  password |-> <<>>, overflow |-> FALSE, saveRet |-> "none",
                  saved |-> FALSE]
    IN  IF rcv # "data" \/ n = 0
        THEN [quiet EXCEPT !.status = IF rcv = "timeout" THEN "408" ELSE "none"]
        ELSE IF p.overflow /\ ub = "crash"
        THEN [quiet EXCEPT !.status = "crash", !.overflow = TRUE]
        ELSE LET r == board_wifi_save_config(st, b, p.ssid, p.password, fault)
             IN  [status |-> IF r.ret = "ESP_OK" THEN "ok" ELSE "error",
                  nvs |-> r.nvs, bits |-> r.bits, ssid |-> p.ssid,
                  password |-> p.password, overflow |-> p.overflow,
                  saveRet |-> r.ret, saved |-> TRUE]

\* --- request bodies -----------------------------------------------------
BodyForms == {"ssid_pass", "ssid_only", "pass_only", "empty"}
HttpSsids == {Rep(97, n) : n \in {0, 1, MaxSsidLen, MaxSsidLen + 1}}
                 \cup {<<Plus, 97>>}
HttpPasswords == {Rep(65, n) : n \in {0, MaxPassLen, MaxPassLen + 1}}
                     \cup {<<65, Plus>>}

NoBody == [form |-> "empty", s |-> <<>>, p |-> <<>>]

\* the bytes of the body a client built from the fields s and p
BodyBytes(g) ==
    CASE g.form = "ssid_pass" -> SsidKey \o g.s \o <<Amp>> \o PasswordKey \o g.p
      [] g.form = "ssid_only" -> SsidKey \o g.s
      [] g.form = "pass_only" -> PasswordKey \o g.p
      [] OTHER -> <<>>

Bodies ==
    {[form |-> "ssid_pass", s |-> s, p |-> p] :
        s \in HttpSsids, p \in HttpPasswords}
    \cup {[form |-> "ssid_only", s |-> s, p |-> <<>>] : s \in HttpSsids}
    \cup {[form |-> "pass_only", s |-> <<>>, p |-> p] : p \in HttpPasswords}
    \cup {NoBody}

\* --- routing ------------------------------------------------------------
\* the handlers in the order start_http_server registers them
Routes ==
    << [uri |-> "/", method |-> "GET", handler |-> "root"],
       [uri |-> "/api/device-info", method |-> "GET", handler |-> "device_info"],
       [uri |-> "/api/set-wifi", method |-> "POST", handler |-> "set_wifi"],
       [uri |-> "/*", method |-> "GET", handler |-> "captive_portal"] >>

\* the server compares the request's method with the route's
RouteMethodMatch(route, method) == route.method = method

\* httpd_uri_match_wildcard on a request path, which starts with '/'
UriMatch(template, path) ==
    IF template = "/*" THEN TRUE ELSE template = path

\* the server's lookup: the first route whose URI and method match; a URI
\* match with another method gives 405, no match 404
FindHandler(method, path) ==
    LET uris == {i \in 1..Len(Routes) : UriMatch(Routes[i].uri, path)}
        both == {i \in uris : RouteMethodMatch(Routes[i], method)}
    IN  IF both # {}
        THEN Routes[CHOOSE i \in both : \A j \in both : i <= j].handler
        ELSE IF uris # {} THEN "405" ELSE "404"

HttpMethods == {"GET", "POST", "HEAD"}
HttpPaths == {"/", "/api/device-info", "/api/set-wifi", "/generate_204",
              "/api/set-wifi/x"}
UserAgents == {"xiaomi", "apple", "other"}

\* captive_portal_handler: a 302 for one family of clients, a page that
\* refreshes to the root for the others
captive_portal_handler(ua) ==
    IF ua = "xiaomi" THEN "302 http://192.168.4.1/"
    ELSE "200 refresh http://192.168.4.1/"

NoHttp == [method |-> "none", path |-> "none", handler |-> "none",
           status |-> "none", body |-> NoBody, rcv |-> "none",
           ssid |-> <<>>, password |-> <<>>, overflow |-> FALSE, n |-> 0]

(***************************************************************************)
(* Session manager: websocket_event_handler and the quiet-period timer     *)
(***************************************************************************)
NoTimer == [created |-> FALSE, active |-> FALSE, left |-> 0]

\* no inbound message yet
NoMsg == [len |-> 0, json |-> FALSE, event |-> "absent", data |-> "absent",
          field |-> "absent", num |-> 0]

\* xTimerStart / xTimerReset: the period starts again from now
TimerArm(t) == [t EXCEPT !.active = TRUE, !.left = QuietTicks]

\* WEBSOCKET_EVENT_CONNECTED leaves reset_timer as it is
TimerOnConnected(t) == t

\* event bits after WEBSOCKET_EVENT_CONNECTED
BitsOnConnected(b) == b \cup {WEBSOCKET_CONNECTED_BIT}

\* event bits after WEBSOCKET_EVENT_DISCONNECTED
BitsOnDisconnected(b) ==
    (b \ {WEBSOCKET_CONNECTED_BIT}) \cup {WEBSOCKET_DISCONNECTED_BIT}

\* an outbound text message: its event name and the values it carries
Msg(event, id, num) == [event |-> event, id |-> id, num |-> num]

DeviceConnectedMsg == Msg("device_connected", BOARD_WS_DEVICE_CLIENT_ID, 0)

\* an announcement made on the first connection only
ConnectedOutbox_FirstOnly(first) ==
    IF first THEN <<DeviceConnectedMsg>> ELSE <<>>

\* what WEBSOCKET_EVENT_CONNECTED sends
ConnectedOutbox(first) == <<DeviceConnectedMsg>>

\* cJSON's valueint of a JSON number: saturated to the range of int
cJSON_valueint(n) ==
    IF n >= IntMax THEN IntMax
    ELSE IF n <= -IntMax - 1 THEN -IntMax - 1
    ELSE n

\* a clamp without the upper limit
ClampDuration_NoUpper(v) == IF v < MinRecordSeconds THEN MinRecordSeconds ELSE v

\* if (duration < 1) duration = 1; if (duration > 60) duration = 60;
ClampDuration(v) ==
    LET a == IF v < MinRecordSeconds THEN MinRecordSeconds ELSE v
    IN  IF a > MaxRecordSeconds THEN MaxRecordSeconds ELSE a

\* the data field is an object whose parameter is a number
HasNumber(m) == m.data = "object" /\ m.field = "number"

\* the duration the start_recording branch passes on
RecordingDuration(m) ==
    IF HasNumber(m) THEN ClampDuration(cJSON_valueint(m.num))
    ELSE DefaultRecordSeconds

\* the id the play_pcm branch passes on
PcmId(m) == IF HasNumber(m) THEN cJSON_valueint(m.num) ELSE DefaultPcmId

\* a dispatch that plays on every event it does not know
Dispatch_PlayUnknown(m) ==
    IF m.len = 0 \/ ~m.json \/ m.event \in {"absent", "number"} THEN "drop"
    ELSE IF m.event \in {"start_recording", "restart"} THEN m.event
    ELSE "play_pcm"

\* WEBSOCKET_EVENT_DATA: the branch taken for message m
Dispatch(m) ==
    IF m.len = 0 \/ ~m.json \/ m.event \in {"absent", "number"} THEN "drop"
    ELSE IF m.event \in {"start_recording", "restart", "play_pcm"} THEN m.event
    ELSE "drop"

RecordOutcomes == {"ok", "ok_empty", "no_buffer", "no_device", "record_fail"}

\* which of the two heap_caps_malloc calls can succeed
AllocOutcomes == {"psram", "internal", "none"}

\* heap_caps_malloc(size, caps): a request of 0 bytes returns NULL
MallocOk(size, heapHasRoom) == size > 0 /\ heapHasRoom

\* start_audio_recording: the buffer check, on the buffer pointer and the
\* recorded size
AllocBuffer(buf, size, a) ==
    IF buf \/ MallocOk(size, a = "psram")
    THEN [buf |-> TRUE, size |-> size, abort |-> FALSE]
    ELSE LET half == size \div 2
             ok == MallocOk(half, a \in {"psram", "internal"})
         IN  [buf |-> ok, size |-> half, abort |-> ~ok]

\* start_audio_recording(seconds) in state st while the session is connected
start_audio_recording(seconds, st, out) ==
    IF st = "RECORDING" \/ out \in {"no_buffer", "no_device"}
    THEN [state |-> st, sent |-> <<>>, calls |-> <<>>, ms |-> 0]
    ELSE IF out = "record_fail"
    THEN [state |-> "WIFI_CONNECTED", sent |-> <<>>, calls |-> <<"record">>,
          ms |-> seconds * 1000]
    ELSE [state |-> "WIFI_CONNECTED",
          sent |-> <<Msg("record_complete", "", seconds)>>,
          calls |-> IF out = "ok" THEN <<"record", "play">> ELSE <<"record">>,
          ms |-> seconds * 1000]

PlayOutcomes == {"ok", "play_fail", "not_ready"}

\* play_pcm_by_id(pcm_id) in state st
play_pcm_by_id(pcm_id, st, out) ==
    IF pcm_id \notin 1..4
    THEN [ret |-> "ESP_ERR_INVALID_ARG", state |-> st, played |-> FALSE]
    ELSE IF out = "not_ready"
    THEN [ret |-> "ESP_FAIL", state |-> st, played |-> FALSE]
    ELSE [ret |-> IF out = "ok" THEN "ESP_OK" ELSE "ESP_FAIL", state |-> "INIT",
          played |-> TRUE]

\* inbound frames: the event field, the data field and its parameter
EventFields == {"absent", "number", "start_recording", "restart", "play_pcm", "ping"}
Numbers == {-IntMax - 1, -1, 0, 1, 5, 60, 61, IntMax}
JsonMsg(e, d, f, n) ==
    [len |-> 1, json |-> TRUE, event |-> e, data |-> d, field |-> f, num |-> n]
InboundMsgs ==
    {NoMsg, [NoMsg EXCEPT !.len = 1]}
    \cup {JsonMsg(e, d, "absent", 0) : e \in EventFields,
                                       d \in {"absent", "scalar", "object"}}
    \cup {JsonMsg(e, "object", "string", 0) : e \in EventFields}
    \cup {JsonMsg(e, "object", "number", n) : e \in EventFields, n \in Numbers}

\* websocket_event_handler, case WEBSOCKET_EVENT_CONNECTED
WsConnected ==
    /\ wsLink \in {"connecting", "disconnected"}
    /\ connCount < MaxConn
    /\ lastFired' = first_connection
    /\ first_connection' = FALSE
    /\ reset_timer' = TimerOnConnected(reset_timer)
    /\ bits' = BitsOnConnected(bits)
    /\ wsSent' = ConnectedOutbox(first_connection)
    /\ s_system_state' = "WS_CONNECTED"
    /\ wsLink' = "connected"
    /\ connCount' = connCount + 1
    /\ lastInQuiet' = (sinceDown < QuietTicks)
    /\ lastEvent' = "connected"
    /\ UNCHANGED <<sinceDisc, sinceDown, dataVars,
                   storeVars, dnsVars, staVars, waitVars, orchVars>>
    /\ UNCHANGED <<httpVars, audioVars, taskVars>>

\* websocket_event_handler, case WEBSOCKET_EVENT_DISCONNECTED
WsDisconnected ==
    /\ wsLink \in {"connecting", "connected", "closing", "disconnected"}
    /\ \E createOk \in BOOLEAN :
        reset_timer' =
            IF reset_timer.created THEN TimerArm(reset_timer)
            ELSE IF createOk THEN TimerArm([reset_timer EXCEPT !.created = TRUE])
            ELSE reset_timer
    /\ bits' = BitsOnDisconnected(bits)
    /\ s_system_state' = "WIFI_CONNECTED"
    /\ wsSent' = <<>>
    /\ wsLink' = "disconnected"
    /\ sinceDisc' = 0
    /\ sinceDown' = IF wsLink = "disconnected" THEN sinceDown ELSE 0
    /\ lastEvent' = "disconnected"
    /\ UNCHANGED <<first_connection, connCount, lastFired, lastInQuiet,
                   dataVars,
                   storeVars, dnsVars, staVars, waitVars, orchVars>>
    /\ UNCHANGED <<httpVars, audioVars, taskVars>>

\* the client leaves the connected state (a close frame, a transport error)
\* before it has dispatched WEBSOCKET_EVENT_DISCONNECTED: from here on
\* esp_websocket_client_is_connected returns false
WsDrop ==
    /\ wsLink = "connected"
    /\ wsLink' = "closing"
    /\ UNCHANGED <<first_connection, reset_timer, s_system_state, wsSent,
                   connCount, lastFired, lastInQuiet, sinceDisc, sinceDown,
                   lastEvent, bits, dataVars, storeVars, dnsVars, staVars,
                   waitVars, orchVars, httpVars, audioVars, taskVars>>

\* reset_connection_timer_cb, run by the timer task when the period is over
TimerExpire ==
    /\ reset_timer.active /\ reset_timer.left = 0
    /\ first_connection' = TRUE
    /\ reset_timer' = [reset_timer EXCEPT !.active = FALSE]
    /\ lastEvent' = "timer"
    /\ UNCHANGED <<wsLink, s_system_state, wsSent, connCount, lastFired,
                   lastInQuiet, sinceDisc, sinceDown, bits, dataVars,
                   storeVars, dnsVars, staVars, waitVars, orchVars>>
    /\ UNCHANGED <<httpVars, audioVars, taskVars>>

\* one tick of time passes
Tick ==
    /\ ~(reset_timer.active /\ reset_timer.left = 0)
    /\ reset_timer.active \/ sinceDisc <= QuietTicks \/ sinceDown <= QuietTicks
    /\ reset_timer' = IF reset_timer.active
                      THEN [reset_timer EXCEPT !.left = @ - 1]
                      ELSE reset_timer
    /\ sinceDisc' = Min(sinceDisc + 1, QuietTicks + 1)
    /\ sinceDown' = Min(sinceDown + 1, QuietTicks + 1)
    /\ lastEvent' = "tick"
    /\ UNCHANGED <<first_connection, wsLink, s_system_state, wsSent, connCount,
                   lastFired, lastInQuiet, bits, dataVars,
                   storeVars, dnsVars, staVars, waitVars, orchVars>>
    /\ UNCHANGED <<httpVars, audioVars, taskVars>>

(***************************************************************************)
(* Station connection manager: wifi_sta_event_handler, board_wifi_sta_init *)
(* and board_wifi_sta_wait_connected                                       *)
(***************************************************************************)
RECURSIVE Pow2(_)
Pow2(n) == IF n = 0 THEN 1 ELSE 2 * Pow2(n - 1)

StaWaitBits == {WIFI_CONNECTED_BIT, WIFI_FAIL_BIT}

\* a test that allows one retry more
RetryAllowed_Inclusive(retry) == retry <= BOARD_WIFI_MAX_RETRY

\* the test of the WIFI_EVENT_STA_DISCONNECTED branch
RetryAllowed(retry) == retry < BOARD_WIFI_MAX_RETRY

\* a handler that withdraws WIFI_CONNECTED_BIT when the link is lost
StaOnDisconnected_ClearsConnected(retry, sb, b) ==
    IF RetryAllowed(retry)
    THEN [retry |-> retry + 1, staBits |-> sb \ {WIFI_CONNECTED_BIT},
          bits |-> b, connect |-> TRUE, delay |-> BackoffBaseMs * Pow2(retry)]
    ELSE [retry |-> retry,
          staBits |-> (sb \ {WIFI_CONNECTED_BIT}) \cup {WIFI_FAIL_BIT},
          bits |-> b \cup {WIFI_FAIL_BIT}, connect |-> FALSE, delay |-> 0]

\* a handler whose delay grows by the base delay at each retry
StaOnDisconnected_LinearDelay(retry, sb, b) ==
    IF RetryAllowed(retry)
    THEN [retry |-> retry + 1, staBits |-> sb, bits |-> b, connect |-> TRUE,
          delay |-> BackoffBaseMs * (retry + 1)]
    ELSE [retry |-> retry, staBits |-> sb \cup {WIFI_FAIL_BIT},
          bits |-> b \cup {WIFI_FAIL_BIT}, connect |-> FALSE, delay |-> 0]

\* one run of the WIFI_EVENT_STA_DISCONNECTED branch
StaOnDisconnected(retry, sb, b) ==
    IF RetryAllowed(retry)
    THEN [retry |-> retry + 1, staBits |-> sb, bits |-> b, connect |-> TRUE,
          delay |-> BackoffBaseMs * Pow2(retry)]
    ELSE [retry |-> retry, staBits |-> sb \cup {WIFI_FAIL_BIT},
          bits |-> b \cup {WIFI_FAIL_BIT}, connect |-> FALSE, delay |-> 0]

\* a result that reports a failure before a connection
WaitResult_FailFirst(snap) ==
    IF WIFI_FAIL_BIT \in snap THEN "ESP_FAIL"
    ELSE IF WIFI_CONNECTED_BIT \in snap THEN "ESP_OK"
    ELSE "ESP_ERR_TIMEOUT"

\* board_wifi_sta_wait_connected: the result for the bits the wait returned
WaitResult(snap) ==
    IF WIFI_CONNECTED_BIT \in snap THEN "ESP_OK"
    ELSE IF WIFI_FAIL_BIT \in snap THEN "ESP_FAIL"
    ELSE "ESP_ERR_TIMEOUT"

\* the RAM state of the station manager after a reset of the chip
StaBoot ==
    /\ s_wifi_event_group = FALSE
    /\ staBits = {}
    /\ s_wifi_retry_num = 0
    /\ staHandlers = 0
    /\ staNetif = 0
    /\ staStarts = 0
    /\ staLink = "off"
    /\ evtPc = "idle"
    /\ discRun = 0
    /\ everGotIp = FALSE
    /\ lateConnect = FALSE
    /\ lastBackoff = 0
    /\ initCalls = 0
    /\ initRet = "none"

OrchBoot ==
    /\ orchPc = "boot"
    /\ s_ws_client = FALSE
    /\ monitorPc = "none"
    /\ resetTaskPc = "none"
    /\ lastRestart = "power_on"
    /\ frAsked = FALSE
    /\ softapCalled = FALSE
    /\ wsInitRes = "none"

WaitBoot ==
    /\ waitPc = "idle"
    /\ waitTimeout = 0
    /\ waitLeft = 0
    /\ waitRet = "none"
    /\ waitSnap = {}
    /\ waited = FALSE

\* the station manager's RAM after esp_restart or an abort
StaReset ==
    /\ s_wifi_event_group' = FALSE
    /\ staBits' = {}
    /\ s_wifi_retry_num' = 0
    /\ staHandlers' = 0
    /\ staNetif' = 0
    /\ staStarts' = 0
    /\ staLink' = "off"
    /\ evtPc' = "idle"
    /\ discRun' = 0
    /\ everGotIp' = FALSE
    /\ lateConnect' = FALSE
    /\ lastBackoff' = 0
    /\ initCalls' = 0
    /\ initRet' = "none"

WaitReset ==
    /\ waitPc' = "idle"
    /\ waitTimeout' = 0
    /\ waitLeft' = 0
    /\ waitRet' = "none"
    /\ waitSnap' = {}
    /\ waited' = FALSE

\* what the platform can answer to a call of board_wifi_sta_init: on a first
\* call the driver comes up or esp_wifi_init fails; on a later call
\* esp_netif_create_default_wifi_sta finds its interface key taken, and the
\* build either asserts (the chip restarts) or hands back NULL
InitOutcomes ==
    IF staNetif = 0 THEN {"ok", "wifi_init_fail"} ELSE {"netif_null", "abort"}

\* board_wifi_sta_init when the platform answers out
StaInitBody(out) ==
    /\ LET has_config == board_wifi_has_valid_config(nvs).ret
       IN  IF out = "abort"
            THEN /\ StaReset /\ WaitReset /\ bits' = {}
            ELSE /\ s_wifi_event_group' = TRUE
                 /\ initCalls' = Min(initCalls + 1, 2)
                 /\ IF out = "netif_null"
                    THEN /\ initRet' = "ESP_FAIL"
                         /\ UNCHANGED <<staNetif, staHandlers, staStarts, staLink>>
                    ELSE IF out = "wifi_init_fail"
                    THEN /\ initRet' = "ESP_ERR_NO_MEM"
                         /\ staNetif' = staNetif + 1
                         /\ UNCHANGED <<staHandlers, staStarts, staLink>>
                    ELSE /\ initRet' = "ESP_OK"
                         /\ staNetif' = staNetif + 1
                         /\ staHandlers' = staHandlers + 1
                         /\ staStarts' = IF has_config THEN Min(staStarts + 1, 2)
                                         ELSE staStarts
                         /\ staLink' = IF has_config THEN "starting" ELSE staLink
                 /\ UNCHANGED <<staBits, s_wifi_retry_num, evtPc, lastBackoff,
                                discRun, everGotIp, lateConnect, bits, waitVars>>
    /\ UNCHANGED <<storeVars, dnsVars, sessVars>>

\* board_wifi_sta_init
StaInit ==
    /\ evtPc = "idle"
    /\ \E out \in InitOutcomes : StaInitBody(out)
    /\ UNCHANGED orchVars
    /\ UNCHANGED <<httpVars, audioVars, taskVars>>

\* wifi_sta_event_handler, WIFI_EVENT_STA_START
StaStart ==
    /\ evtPc = "idle" /\ staHandlers > 0
    /\ staLink = "starting"
    /\ s_wifi_retry_num' = 0
    /\ staLink' = "connecting"
    /\ UNCHANGED <<s_wifi_event_group, staBits, staHandlers, staNetif, staStarts,
                   evtPc, discRun, everGotIp, lateConnect, lastBackoff,
                   initCalls, initRet, bits, waitVars, storeVars, dnsVars, sessVars, orchVars>>
    /\ UNCHANGED <<httpVars, audioVars, taskVars>>

\* wifi_sta_event_handler, WIFI_EVENT_STA_DISCONNECTED
StaDisconnected ==
    /\ evtPc = "idle" /\ staHandlers > 0
    /\ staLink \in {"connecting", "up", "idle"}
    /\ discRun < BOARD_WIFI_MAX_RETRY + ExtraDisc
    /\ LET r == StaOnDisconnected(s_wifi_retry_num, staBits, bits)
       IN  /\ s_wifi_retry_num' = r.retry
           /\ staBits' = r.staBits
           /\ bits' = r.bits
           /\ staLink' = IF r.connect THEN "connecting" ELSE "idle"
           /\ lastBackoff' = r.delay
           /\ lateConnect' = (lateConnect \/ (r.connect /\ WIFI_FAIL_BIT \in staBits))
    /\ discRun' = discRun + 1
    /\ UNCHANGED <<s_wifi_event_group, staHandlers, staNetif, staStarts, evtPc,
                   everGotIp, initCalls, initRet, waitVars, storeVars, dnsVars,
                   sessVars, orchVars>>
    /\ UNCHANGED <<httpVars, audioVars, taskVars>>

\* wifi_sta_event_handler, IP_EVENT_STA_GOT_IP, up to the first xEventGroupSetBits
StaGotIp ==
    /\ evtPc = "idle" /\ staHandlers > 0
    /\ staLink = "connecting"
    /\ s_wifi_retry_num' = 0
    /\ staBits' = staBits \cup {WIFI_CONNECTED_BIT}
    /\ staLink' = "up"
    /\ evtPc' = "got_ip"
    /\ discRun' = 0
    /\ everGotIp' = TRUE
    /\ UNCHANGED <<s_wifi_event_group, staHandlers, staNetif, staStarts,
                   lateConnect, lastBackoff, initCalls, initRet, bits, waitVars,
                   storeVars, dnsVars, sessVars, orchVars>>
    /\ UNCHANGED <<httpVars, audioVars, taskVars>>

\* the second xEventGroupSetBits of the IP_EVENT_STA_GOT_IP branch
StaGotIpGlobal ==
    /\ evtPc = "got_ip"
    /\ bits' = bits \cup {WIFI_CONNECTED_BIT}
    /\ evtPc' = "idle"
    /\ UNCHANGED <<s_wifi_event_group, staBits, s_wifi_retry_num, staHandlers,
                   staNetif, staStarts, staLink, discRun, everGotIp, lateConnect,
                   lastBackoff, initCalls, initRet, waitVars, storeVars, dnsVars,
                   sessVars, orchVars>>
    /\ UNCHANGED <<httpVars, audioVars, taskVars>>

\* board_wifi_sta_wait_connected(timeout_ms) with t ticks: the NULL check and
\* the entry into xEventGroupWaitBits
WaitCallWith(t) ==
    /\ waitTimeout' = t
    /\ IF s_wifi_event_group
       THEN /\ waitPc' = "waiting"
            /\ waitLeft' = t
            /\ waited' = TRUE
            /\ waitRet' = "none"
            /\ waitSnap' = {}
       ELSE /\ waitPc' = "returned"
            /\ waitLeft' = 0
            /\ waited' = FALSE
            /\ waitRet' = "ESP_ERR_INVALID_STATE"
            /\ waitSnap' = {}
    /\ UNCHANGED <<staVars, bits, storeVars, dnsVars, sessVars>>

\* a caller enters board_wifi_sta_wait_connected
WaitCall ==
    /\ waitPc \in {"idle", "returned"}
    /\ \E t \in {0, WaitTicks} : WaitCallWith(t)
    /\ UNCHANGED orchVars
    /\ UNCHANGED <<httpVars, audioVars, taskVars>>

\* xEventGroupWaitBits returns because one of the two bits is set
WaitWake ==
    /\ waitPc = "waiting"
    /\ staBits \cap StaWaitBits # {}
    /\ waitSnap' = staBits \cap StaWaitBits
    /\ waitRet' = WaitResult(staBits \cap StaWaitBits)
    /\ waitPc' = "returned"
    /\ UNCHANGED <<waitTimeout, waitLeft, waited, staVars, bits, storeVars,
                   dnsVars, sessVars, orchVars>>
    /\ UNCHANGED <<httpVars, audioVars, taskVars>>

\* a tick passes while the caller is blocked with a finite timeout
WaitTick ==
    /\ waitPc = "waiting"
    /\ waitTimeout # 0 /\ waitLeft > 0
    /\ waitLeft' = waitLeft - 1
    /\ UNCHANGED <<waitPc, waitTimeout, waitRet, waitSnap, waited, staVars, bits,
                   storeVars, dnsVars, sessVars, orchVars>>
    /\ UNCHANGED <<httpVars, audioVars, taskVars>>

\* a timed-out wait that reports the timeout whatever the bits are
WaitExpire_Blind ==
    /\ waitPc = "waiting"
    /\ waitTimeout # 0 /\ waitLeft = 0
    /\ waitSnap' = {}
    /\ waitRet' = WaitResult({})
    /\ waitPc' = "returned"
    /\ UNCHANGED <<waitTimeout, waitLeft, waited, staVars, bits, storeVars,
                   dnsVars, sessVars, orchVars>>
    /\ UNCHANGED <<httpVars, audioVars, taskVars>>

\* xEventGroupWaitBits returns because ticks_to_wait have passed
WaitExpire ==
    /\ waitPc = "waiting"
    /\ waitTimeout # 0 /\ waitLeft = 0
    /\ waitSnap' = staBits \cap StaWaitBits
    /\ waitRet' = WaitResult(staBits \cap StaWaitBits)
    /\ waitPc' = "returned"
    /\ UNCHANGED <<waitTimeout, waitLeft, waited, staVars, bits, storeVars,
                   dnsVars, sessVars, orchVars>>
    /\ UNCHANGED <<httpVars, audioVars, taskVars>>

(***************************************************************************)
(* Orchestrator: app_main, init_websocket_connection, the factory-reset    *)
(* monitor and board_factory_reset_task                                    *)
(***************************************************************************)
DnsReset ==
    /\ softap' = "stopped"
    /\ dnsTask' = "none"
    /\ dnsRx' = <<>>
    /\ dnsGen' = NoGen
    /\ dnsLen' = 0
    /\ dnsOut' = NoReply
    /\ dnsErrAfterStop' = FALSE
    /\ httpServer' = FALSE

\* the session manager's RAM after esp_restart
SessRamReset ==
    /\ first_connection' = TRUE
    /\ reset_timer' = NoTimer
    /\ wsLink' = "none"
    /\ s_system_state' = "INIT"

\* esp_restart: every task's RAM is lost
RestartRam(cause) ==
    /\ StaReset /\ WaitReset /\ DnsReset /\ SessRamReset
    /\ httpLast' = NoHttp
    /\ s_audio_buffer' = FALSE
    /\ s_audio_buffer_size' = BOARD_AUDIO_BUFFER_SIZE
    /\ wsObjects' = 0
    /\ cfgPoll' = "first"
    /\ monPoll' = "first"
    /\ bits' = {}
    /\ orchPc' = "boot"
    /\ s_ws_client' = FALSE
    /\ monitorPc' = "none"
    /\ resetTaskPc' = "none"
    /\ frAsked' = FALSE
    /\ softapCalled' = FALSE
    /\ wsInitRes' = "none"
    /\ lastRestart' = cause

\* esp_restart: RAM is lost, the credential store is kept
Restart(cause) ==
    /\ RestartRam(cause)
    /\ wsSent' = <<>>
    /\ connCount' = 0
    /\ lastFired' = FALSE
    /\ lastInQuiet' = FALSE
    /\ lastEvent' = "boot"
    /\ sinceDisc' = QuietTicks + 1
    /\ sinceDown' = QuietTicks + 1
    /\ lastMsg' = NoMsg
    /\ lastCalls' = <<>>
    /\ recSeconds' = 0
    /\ recMs' = 0
    /\ lastOp' = "boot"
    /\ saveArgs' = [ssid |-> <<>>, password |-> <<>>]
    /\ saveFault' = "none"
    /\ saveRet' = "none"
    /\ cfgOut' = NoCfg
    /\ UNCHANGED <<nvs, erased>>

\* nvs_flash_init in board_init: it succeeds, fails, or reports no free page
\* or a new format version, on which board_init erases the partition
NvsInitOutcomes == {"ok", "fail", "no_free_pages", "new_version"}

\* the credential keys after the NVS step of board_init
board_init_nvs(store, o) ==
    IF o \in {"no_free_pages", "new_version"} THEN EmptyNvs ELSE store

\* app_main up to the creation of factory_reset_monitor_task
OrchBoardInit ==
    /\ orchPc = "boot"
    /\ \E o \in NvsInitOutcomes, ok \in BOOLEAN :
        /\ o = "fail" => ~ok
        /\ nvs' = board_init_nvs(nvs, o)
        /\ IF ok
           THEN /\ orchPc' = "sta_init"
                /\ monitorPc' = "wait"
           ELSE /\ orchPc' = "fatal"
                /\ UNCHANGED monitorPc
    /\ UNCHANGED <<s_ws_client, resetTaskPc, lastRestart, frAsked, softapCalled,
                   wsInitRes, lastOp, saveArgs, saveFault, saveRet, cfgOut, erased,
                   bits, dnsVars, sessVars, staVars, waitVars>>
    /\ UNCHANGED <<httpVars, audioVars, taskVars>>

\* app_main: board_init failed; wait 3 s and restart
OrchFatalRestart ==
    /\ orchPc = "fatal"
    /\ Restart("fatal")

\* app_main: ret = board_wifi_sta_init(); on failure goto config_mode
OrchStaInit ==
    /\ orchPc = "sta_init"
    /\ evtPc = "idle"
    /\ \E out \in InitOutcomes :
        /\ StaInitBody(out)
        /\ orchPc' = IF out = "ok" THEN "check_config" ELSE "config_mode"
    /\ UNCHANGED <<s_ws_client, monitorPc, resetTaskPc, lastRestart,
                   frAsked, softapCalled, wsInitRes>>
    /\ UNCHANGED <<httpVars, audioVars, taskVars>>

\* app_main: has_wifi_config = board_wifi_has_valid_config(ssid, NULL)
OrchCheckConfig ==
    /\ orchPc = "check_config"
    /\ IF board_wifi_has_valid_config(nvs).ret
       THEN /\ s_system_state' = "WIFI_CONNECTING"
            /\ orchPc' = "wait_call"
       ELSE /\ orchPc' = "config_mode"
            /\ UNCHANGED s_system_state
    /\ UNCHANGED <<first_connection, reset_timer, wsLink, wsSent, connCount,
                   lastFired, lastInQuiet, sinceDisc, sinceDown, lastEvent, dataVars,
                   s_ws_client, monitorPc, resetTaskPc, lastRestart,
                   frAsked, softapCalled, wsInitRes,
                   storeVars, bits, dnsVars, staVars, waitVars>>
    /\ UNCHANGED <<httpVars, audioVars, taskVars>>

\* app_main: ret = board_wifi_sta_wait_connected(30000)
OrchWaitCall ==
    /\ orchPc = "wait_call"
    /\ WaitCallWith(WaitTicks)
    /\ orchPc' = "wait"
    /\ UNCHANGED <<s_ws_client, monitorPc, resetTaskPc, lastRestart,
                   frAsked, softapCalled, wsInitRes>>
    /\ UNCHANGED <<httpVars, audioVars, taskVars>>

\* a branch that goes on after a timeout
AfterWait_TimeoutProceeds(ret) ==
    IF ret # "ESP_FAIL" THEN "ws_init" ELSE "config_mode"

\* app_main: if (ret == ESP_OK) ... else goto config_mode
AfterWait(ret) == IF ret = "ESP_OK" THEN "ws_init" ELSE "config_mode"

OrchAfterWait ==
    /\ orchPc = "wait" /\ waitPc = "returned"
    /\ orchPc' = AfterWait(waitRet)
    /\ s_system_state' = IF AfterWait(waitRet) = "ws_init" THEN "WIFI_CONNECTED"
                         ELSE s_system_state
    /\ UNCHANGED <<first_connection, reset_timer, wsLink, wsSent, connCount,
                   lastFired, lastInQuiet, sinceDisc, sinceDown, lastEvent, dataVars,
                   s_ws_client, monitorPc, resetTaskPc, lastRestart,
                   frAsked, softapCalled, wsInitRes,
                   storeVars, bits, dnsVars, staVars, waitVars>>
    /\ UNCHANGED <<httpVars, audioVars, taskVars>>

WsInitOutcomes == {"ok", "init_fail", "start_fail"}

\* init_websocket_connection under event bits b, with the handle set or not
init_websocket_connection(b, client, out) ==
    IF WIFI_CONNECTED_BIT \notin b
    THEN [res |-> "no_wifi", client |-> client, started |-> FALSE]
    ELSE IF client
    THEN [res |-> "exists", client |-> client, started |-> FALSE]
    ELSE IF out = "init_fail"
    THEN [res |-> "init_fail", client |-> FALSE, started |-> FALSE]
    ELSE IF out = "start_fail"
    THEN [res |-> "start_fail", client |-> TRUE, started |-> FALSE]
    ELSE [res |-> "started", client |-> TRUE, started |-> TRUE]

\* app_main calls init_websocket_connection, then enters the main loop
OrchWsInit ==
    /\ orchPc \in {"ws_init", "ws_reinit"}
    /\ \E out \in WsInitOutcomes :
        LET r == init_websocket_connection(bits, s_ws_client, out)
        IN  /\ s_ws_client' = r.client
            /\ wsObjects' = IF r.res \in {"started", "start_fail"}
                             THEN wsObjects + 1 ELSE wsObjects
            /\ wsLink' = IF r.started THEN "connecting" ELSE wsLink
            /\ wsInitRes' = IF orchPc = "ws_init" THEN r.res ELSE wsInitRes
    /\ orchPc' = "main_loop"
    /\ UNCHANGED <<first_connection, reset_timer, s_system_state, wsSent,
                   connCount, lastFired, lastInQuiet, sinceDisc, sinceDown,
                   lastEvent, dataVars, monitorPc, resetTaskPc, lastRestart,
                   frAsked, softapCalled, storeVars, bits, dnsVars, staVars,
                   waitVars>>
    /\ UNCHANGED <<httpVars, audioVars, cfgPoll, monPoll>>

\* a loop that clears the handle and leaves the object alive
LoopDestroy_Skip(n) == n

\* esp_websocket_client_destroy(s_ws_client) returning ESP_OK
LoopDestroy(n) == n - 1

\* the main loop finds the client not connected, destroys it and waits 1 s
OrchMainLoop ==
    /\ orchPc = "main_loop"
    /\ s_system_state \in {"WIFI_CONNECTED", "WS_CONNECTED"}
    /\ s_ws_client /\ wsLink # "connected"
    /\ wsObjects' = LoopDestroy(wsObjects)
    /\ s_ws_client' = FALSE
    /\ wsLink' = "none"
    /\ orchPc' = "ws_reinit"
    /\ UNCHANGED <<first_connection, reset_timer, s_system_state, wsSent,
                   connCount, lastFired, lastInQuiet, sinceDisc, sinceDown,
                   lastEvent, dataVars, monitorPc, resetTaskPc, lastRestart,
                   frAsked, softapCalled, wsInitRes, storeVars, bits, dnsVars,
                   staVars, waitVars>>
    /\ UNCHANGED <<httpVars, audioVars, cfgPoll, monPoll>>

\* config_mode: the prompt, the state and board_wifi_softap_start
OrchConfigMode ==
    /\ orchPc = "config_mode"
    /\ s_system_state' = "WIFI_CONFIG"
    /\ \E o \in StartOutcomes : SoftapStartBody(o)
    /\ softapCalled' = TRUE
    /\ orchPc' = "config_wait"
    /\ UNCHANGED <<dnsRx, dnsGen, dnsLen, dnsOut, dnsErrAfterStop,
                   first_connection, reset_timer, wsLink, wsSent, connCount,
                   lastFired, lastInQuiet, sinceDisc, sinceDown, lastEvent, dataVars,
                   s_ws_client, monitorPc, resetTaskPc, lastRestart,
                   frAsked, wsInitRes, storeVars, bits, staVars, waitVars>>
    /\ UNCHANGED <<httpLast, audioVars, taskVars>>

\* a poll that takes any wake-up for the bit
ConfigSavedSeen_Any(b) == TRUE

\* if (bits & WIFI_CONFIG_SAVED_BIT)
ConfigSavedSeen(b) == WIFI_CONFIG_SAVED_BIT \in b

\* the provisioning loop sees WIFI_CONFIG_SAVED_BIT
OrchConfigPoll ==
    /\ orchPc = "config_wait"
    /\ ConfigSavedSeen(bits)
    /\ orchPc' = "config_saved"
    /\ UNCHANGED <<s_ws_client, monitorPc, resetTaskPc, lastRestart,
                   frAsked, softapCalled, wsInitRes, storeVars, bits, dnsVars,
                   sessVars, staVars, waitVars>>
    /\ UNCHANGED <<httpVars, audioVars, taskVars>>

\* the provisioning loop with its two phases: xEventGroupWaitBits returns,
\* with WIFI_CONFIG_SAVED_BIT or after its 1 s timeout without it
CfgPollReturn ==
    /\ orchPc = "config_wait" /\ cfgPoll \in {"first", "wait"}
    /\ IF ConfigSavedSeen(bits)
       THEN /\ orchPc' = "config_saved"
            /\ UNCHANGED cfgPoll
       ELSE /\ cfgPoll' = "delay"
            /\ UNCHANGED orchPc
    /\ UNCHANGED <<s_ws_client, monitorPc, resetTaskPc, lastRestart,
                   frAsked, softapCalled, wsInitRes, storeVars, bits, dnsVars,
                   sessVars, staVars, waitVars>>
    /\ UNCHANGED <<httpVars, audioVars, wsObjects, monPoll>>

\* vTaskDelay(1000) of the provisioning loop is over
CfgPollDelay ==
    /\ orchPc = "config_wait" /\ cfgPoll = "delay"
    /\ cfgPoll' = "wait"
    /\ UNCHANGED <<storeVars, bits, dnsVars, sessVars, staVars, waitVars,
                   orchVars, httpVars, audioVars, wsObjects, monPoll>>

\* the success prompt, 3 s, esp_restart
OrchConfigRestart ==
    /\ orchPc = "config_saved"
    /\ Restart("config_saved")

\* a POST of /api/set-wifi with body g runs the set-wifi handler, whose
\* result is r
HttpSetWifiDone(g, rcv, fault, r) ==
    IF r.status = "crash"
    THEN Restart("panic")
    ELSE /\ nvs' = r.nvs
         /\ bits' = r.bits
         /\ saveRet' = IF r.saved THEN r.saveRet ELSE saveRet
         /\ saveArgs' = IF r.saved
                        THEN [ssid |-> r.ssid, password |-> r.password]
                        ELSE saveArgs
         /\ saveFault' = IF r.saved THEN fault ELSE saveFault
         /\ erased' = IF r.saveRet = "ESP_OK" THEN FALSE ELSE erased
         /\ lastOp' = IF r.saved THEN "save" ELSE lastOp
         /\ cfgOut' = IF r.saved THEN NoCfg ELSE cfgOut
         /\ httpLast' = [method |-> "POST", path |-> "/api/set-wifi",
                         handler |-> "set_wifi", status |-> r.status,
                         body |-> g, rcv |-> rcv, ssid |-> r.ssid,
                         password |-> r.password, overflow |-> r.overflow,
                         n |-> 1 - httpLast.n]
         /\ UNCHANGED <<dnsVars, httpServer, sessVars, staVars, waitVars,
                        orchVars, audioVars, taskVars>>

HttpSetWifiWith(g, rcv, fault, ub) ==
    \E buf \in {HttpRecv(BodyBytes(g))} :
      \E p \in {ParseSetWifi(buf)} :
        \E r \in {set_wifi_config_handler(Len(buf), p, nvs, bits, rcv, fault, ub)} :
            HttpSetWifiDone(g, rcv, fault, r)

\* http_server_set_wifi_config_handler, for every body and every answer of
\* the socket and the storage
HttpSetWifi ==
    /\ httpServer /\ softap = "active"
    /\ FindHandler("POST", "/api/set-wifi") = "set_wifi"
    /\ \E g \in Bodies :
        \E buf \in {HttpRecv(BodyBytes(g))} :
          \E p \in {ParseSetWifi(buf)} :
            \E rcv \in RecvOutcomes, fault \in HttpSaveFaults,
               ub \in OverflowOutcomes :
              LET received == rcv = "data" /\ Len(buf) > 0
              IN  /\ ~received => (g = NoBody /\ fault = "none" /\ ub = "continue")
                  /\ (received /\ ~p.overflow) => ub = "continue"
                  /\ (received /\ SaveArgsInvalid(p.ssid, p.password))
                         => fault = "none"
                  /\ \E r \in {set_wifi_config_handler(Len(buf), p, nvs, bits,
                                                        rcv, fault, ub)} :
                        HttpSetWifiDone(g, rcv, fault, r)

\* any other request: the handler the server finds for it, or its 404 or 405
HttpOther ==
    /\ httpServer /\ softap = "active"
    /\ \E method \in HttpMethods, path \in HttpPaths, ua \in UserAgents :
        LET h == FindHandler(method, path)
        IN  /\ h # "set_wifi"
            /\ h # "captive_portal" => ua = "other"
            /\ httpLast' =
                  [NoHttp EXCEPT !.method = method, !.path = path, !.handler = h,
                                 !.status = CASE h = "captive_portal" ->
                                                     captive_portal_handler(ua)
                                              [] h = "root" -> "200 page"
                                              [] h = "device_info" -> "200 json"
                                              [] OTHER -> h,
                                 !.n = 1 - httpLast.n]
    /\ UNCHANGED <<httpServer, storeVars, bits, dnsVars, sessVars, staVars,
                   waitVars, orchVars, audioVars, taskVars>>

\* credentials a captive-portal client submits
ProvisionSsids == {Rep(97, 1), Rep(97, MaxSsidLen)}

\* http_server_set_wifi_config_handler: the call of board_wifi_save_config
SetWifiSave ==
    /\ httpServer /\ softap = "active"
    /\ orchPc \in {"config_wait", "config_saved"}
    /\ \E ssid \in ProvisionSsids :
        HttpSetWifiWith([form |-> "ssid_pass", s |-> ssid, p |-> <<>>],
                        "data", "none", "continue")

\* some component sets FACTORY_RESET_BIT
RequestFactoryReset ==
    /\ orchPc # "boot"
    /\ ~frAsked /\ resetTaskPc = "none"
    /\ bits' = bits \cup {FACTORY_RESET_BIT}
    /\ frAsked' = TRUE
    /\ UNCHANGED <<orchPc, s_ws_client, monitorPc, resetTaskPc,
                   lastRestart, softapCalled, wsInitRes, storeVars, dnsVars,
                   sessVars, staVars, waitVars>>
    /\ UNCHANGED <<httpVars, audioVars, taskVars>>

\* factory_reset_monitor_task: xEventGroupWaitBits returns the bit and clears it
MonitorObserve ==
    /\ monitorPc = "wait"
    /\ FACTORY_RESET_BIT \in bits
    /\ bits' = bits \ {FACTORY_RESET_BIT}
    /\ monitorPc' = "handle"
    /\ UNCHANGED <<orchPc, s_ws_client, resetTaskPc, lastRestart,
                   frAsked, softapCalled, wsInitRes, storeVars, dnsVars, sessVars,
                   staVars, waitVars>>
    /\ UNCHANGED <<httpVars, audioVars, taskVars>>

\* the monitor loop with its two phases: xEventGroupWaitBits returns, with
\* FACTORY_RESET_BIT, which it clears, or after its 1 s timeout without it
MonPollReturn ==
    /\ monitorPc = "wait" /\ monPoll \in {"first", "wait"}
    /\ IF FACTORY_RESET_BIT \in bits
       THEN /\ bits' = bits \ {FACTORY_RESET_BIT}
            /\ monitorPc' = "handle"
            /\ UNCHANGED monPoll
       ELSE /\ monPoll' = "delay"
            /\ UNCHANGED <<bits, monitorPc>>
    /\ UNCHANGED <<orchPc, s_ws_client, resetTaskPc, lastRestart,
                   frAsked, softapCalled, wsInitRes, storeVars, dnsVars, sessVars,
                   staVars, waitVars>>
    /\ UNCHANGED <<httpVars, audioVars, wsObjects, cfgPoll>>

\* vTaskDelay(1000) of the monitor loop is over
MonPollDelay ==
    /\ monitorPc = "wait" /\ monPoll = "delay"
    /\ monPoll' = "wait"
    /\ UNCHANGED <<storeVars, bits, dnsVars, sessVars, staVars, waitVars,
                   orchVars, httpVars, audioVars, wsObjects, cfgPoll>>

\* handle_factory_reset_event: the prompt, then xTaskCreate of the reset task
MonitorHandle ==
    /\ monitorPc = "handle"
    /\ \E played \in BOOLEAN, created \in BOOLEAN :
        /\ s_system_state' = IF played THEN "INIT" ELSE s_system_state
        /\ resetTaskPc' = IF created /\ resetTaskPc = "none" THEN "run"
                          ELSE resetTaskPc
    /\ monitorPc' = "wait"
    /\ UNCHANGED <<first_connection, reset_timer, wsLink, wsSent, connCount,
                   lastFired, lastInQuiet, sinceDisc, sinceDown, lastEvent, dataVars,
                   orchPc, s_ws_client, lastRestart, frAsked,
                   softapCalled, wsInitRes, storeVars, bits, dnsVars, staVars,
                   waitVars>>
    /\ UNCHANGED <<httpVars, audioVars, taskVars>>

\* board_factory_reset_task up to the 1 s delay: esp_wifi_stop, the erase and
\* xEventGroupClearBits(board_event_group, 0xFF)
ResetTaskErase ==
    /\ resetTaskPc = "run"
    /\ \E fault \in ResetFaults :
        /\ nvs' = factory_reset_erase(nvs, fault)
        /\ erased' = (fault = "none")
    /\ bits' = {}
    /\ lastOp' = "factory_reset"
    /\ cfgOut' = NoCfg
    /\ staLink' = "off"
    /\ softap' = IF softap = "active" THEN "radio_off" ELSE softap
    /\ resetTaskPc' = "delay"
    /\ UNCHANGED <<saveArgs, saveFault, saveRet, dnsTask, dnsRx, dnsGen, dnsLen,
                   dnsOut, dnsErrAfterStop, sessVars, s_wifi_event_group, staBits,
                   s_wifi_retry_num, staHandlers, staNetif, staStarts, evtPc,
                   discRun, everGotIp, lateConnect, lastBackoff, initCalls,
                   initRet, waitVars, orchPc, s_ws_client, monitorPc,
                   lastRestart, frAsked, softapCalled, wsInitRes>>
    /\ UNCHANGED <<httpVars, audioVars, taskVars>>

\* board_factory_reset_task: esp_restart after the delay
ResetTaskRestart ==
    /\ resetTaskPc = "delay"
    /\ Restart("factory_reset")

(***************************************************************************)
(* Inbound messages: websocket_event_handler, case WEBSOCKET_EVENT_DATA    *)
(***************************************************************************)
\* the handler runs on a message out of msgs
WsDataOn(msgs) ==
    /\ wsLink = "connected"
    /\ \E m \in msgs :
        /\ lastMsg' = m
        /\ lastEvent' = "data"
        /\ IF Dispatch(m) = "restart"
           THEN /\ RestartRam("command")
                /\ wsSent' = <<Msg("restart_ack", "ok", 0)>>
                /\ lastCalls' = <<"restart">>
                /\ recSeconds' = 0
                /\ recMs' = 0
           ELSE /\ IF Dispatch(m) = "start_recording"
                   THEN \E al \in AllocOutcomes, ro \in RecordOutcomes \ {"no_buffer"} :
                        LET secs == RecordingDuration(m)
                            a == AllocBuffer(s_audio_buffer, s_audio_buffer_size, al)
                            out == IF a.abort THEN "no_buffer" ELSE ro
                            r == start_audio_recording(secs, s_system_state, out)
                        IN  /\ a.abort => ro = "ok"
                            /\ s_audio_buffer => al = "psram"
                            /\ s_audio_buffer' = a.buf
                            /\ s_audio_buffer_size' = a.size
                            /\ s_system_state' = r.state
                            /\ wsSent' = r.sent \o <<Msg("recording_started", "", secs)>>
                            /\ lastCalls' = r.calls
                            /\ recSeconds' = secs
                            /\ recMs' = r.ms
                   ELSE IF Dispatch(m) = "play_pcm"
                   THEN \E po \in PlayOutcomes :
                        LET r == play_pcm_by_id(PcmId(m), s_system_state, po)
                        IN  /\ s_system_state' = r.state
                            /\ wsSent' = <<Msg("play_pcm_result",
                                               IF r.ret = "ESP_OK" THEN "ok" ELSE "fail",
                                               PcmId(m))>>
                            /\ lastCalls' = IF r.played THEN <<"play">> ELSE <<>>
                            /\ recSeconds' = 0
                            /\ recMs' = 0
                            /\ UNCHANGED audioVars
                   ELSE /\ wsSent' = <<>>
                        /\ lastCalls' = <<>>
                        /\ recSeconds' = 0
                        /\ recMs' = 0
                        /\ UNCHANGED <<s_system_state, audioVars>>
                /\ UNCHANGED <<first_connection, reset_timer, wsLink, bits, dnsVars,
                               staVars, waitVars, orchVars, httpVars,
                               taskVars>>
    /\ UNCHANGED <<connCount, lastFired, lastInQuiet, sinceDisc, sinceDown,
                   storeVars>>

WsData == WsDataOn(InboundMsgs)

(***************************************************************************)
(* Accesses to the static variables of main.c. The tasks are scheduled     *)
(* preemptively and main.c takes no lock, so the next steps of two tasks   *)
(* that are both due can overlap.                                          *)
(***************************************************************************)
Tasks == {"app_main", "monitor", "ws", "timer"}

\* the client task exists and can run websocket_event_handler
WsTaskLive == wsLink \in {"connecting", "connected", "closing", "disconnected"}

\* the variables the next step of task t writes
Writes(t) ==
    CASE t = "app_main" ->
            IF orchPc \in {"check_config", "config_mode"}
               \/ (orchPc = "wait" /\ waitPc = "returned")
            THEN {"s_system_state"}
            ELSE IF orchPc \in {"ws_init", "ws_reinit"}
                    \/ (orchPc = "main_loop" /\ s_ws_client
                            /\ s_system_state \in {"WIFI_CONNECTED", "WS_CONNECTED"})
            THEN {"s_ws_client"}
            ELSE {}
      [] t = "monitor" ->
            IF monitorPc = "handle" THEN {"s_system_state"} ELSE {}
      [] t = "ws" ->
            IF WsTaskLive THEN {"s_system_state", "first_connection"} ELSE {}
      [] t = "timer" ->
            IF reset_timer.active /\ reset_timer.left = 0
            THEN {"first_connection"} ELSE {}

\* the variables the next step of task t reads
Reads(t) ==
    CASE t = "app_main" ->
            IF orchPc = "main_loop" THEN {"s_system_state", "s_ws_client"}
            ELSE IF orchPc \in {"ws_init", "ws_reinit"} THEN {"s_ws_client"}
            ELSE {}
      [] t = "monitor" -> {}
      [] t = "ws" ->
            IF WsTaskLive
            THEN {"s_system_state", "first_connection", "s_ws_client"}
            ELSE {}
      [] t = "timer" -> {}

\* two tasks whose next steps touch one variable, one of them writing it
Races ==
    {<<t1, t2>> \in Tasks \X Tasks :
        t1 # t2 /\ Writes(t1) \cap (Reads(t2) \cup Writes(t2)) # {}}

(***************************************************************************)
(* Initial states and specifications                                       *)
(***************************************************************************)
InitStore ==
    /\ nvs = EmptyNvs
    /\ lastOp = "boot"
    /\ saveArgs = [ssid |-> <<>>, password |-> <<>>]
    /\ saveFault = "none"
    /\ saveRet = "none"
    /\ cfgOut = NoCfg
    /\ erased = FALSE

InitHttp ==
    /\ httpServer = FALSE
    /\ httpLast = NoHttp

InitAudio ==
    /\ s_audio_buffer = FALSE
    /\ s_audio_buffer_size = BOARD_AUDIO_BUFFER_SIZE

InitPolls ==
    /\ cfgPoll = "first"
    /\ monPoll = "first"

InitDns ==
    /\ softap = "stopped"
    /\ dnsTask = "none"
    /\ dnsRx = <<>>
    /\ dnsGen = NoGen
    /\ dnsLen = 0
    /\ dnsOut = NoReply
    /\ dnsErrAfterStop = FALSE

InitSess ==
    /\ first_connection = TRUE
    /\ reset_timer = NoTimer
    /\ s_system_state = "INIT"
    /\ wsSent = <<>>
    /\ lastMsg = NoMsg
    /\ lastCalls = <<>>
    /\ recSeconds = 0
    /\ recMs = 0
    /\ connCount = 0
    /\ lastFired = FALSE
    /\ lastInQuiet = FALSE
    /\ lastEvent = "boot"
    /\ sinceDisc = QuietTicks + 1
    /\ sinceDown = QuietTicks + 1

\* the device after boot, before the orchestrator has branched
Init ==
    /\ InitStore /\ InitDns /\ InitHttp /\ InitAudio /\ InitSess /\ StaBoot /\ WaitBoot /\ OrchBoot
    /\ bits = {}
    /\ InitPolls /\ wsObjects = 0
    /\ wsLink = "none"

\* the device once the station has joined and the session client was started
InitSession ==
    /\ InitStore /\ InitDns /\ InitHttp /\ InitAudio /\ InitSess /\ StaBoot /\ WaitBoot /\ OrchBoot
    /\ bits = {WIFI_CONNECTED_BIT}
    /\ InitPolls /\ wsObjects = 1
    /\ wsLink = "connecting"

NextStore == SaveConfig \/ HasValidConfig \/ FactoryReset

NextDns ==
    SoftapStart \/ DnsRecv \/ DnsRecvRaw \/ DnsRecvError \/ DnsLoop \/ SoftapStop

NextSession == WsConnected \/ WsDisconnected \/ TimerExpire \/ Tick

\* a boot with or without stored credentials
SampleNvs == [ssid |-> Key(Rep(97, 1)), password |-> Key(Rep(65, 0))]

InitSta ==
    /\ nvs \in {EmptyNvs, SampleNvs}
    /\ lastOp = "boot"
    /\ saveArgs = [ssid |-> <<>>, password |-> <<>>]
    /\ saveFault = "none"
    /\ saveRet = "none"
    /\ cfgOut = NoCfg
    /\ erased = FALSE
    /\ InitDns /\ InitHttp /\ InitAudio /\ InitSess /\ StaBoot /\ WaitBoot /\ OrchBoot
    /\ InitPolls /\ wsObjects = 0
    /\ bits = {}
    /\ wsLink = "none"

NextSta ==
    \/ StaInit \/ StaStart \/ StaDisconnected \/ StaGotIp \/ StaGotIpGlobal
    \/ WaitCall \/ WaitWake \/ WaitTick \/ WaitExpire

SpecStore == Init /\ [][NextStore]_vars

SpecDns == Init /\ [][NextDns]_vars

SpecSession == InitSession /\ [][NextSession]_vars

\* time passes, and the timer task runs the callback of an expired timer
SpecSessionFair ==
    /\ InitSession /\ [][NextSession]_vars
    /\ WF_vars(Tick) /\ WF_vars(TimerExpire)

SpecSta == InitSta /\ [][NextSta]_vars

\* provisioning is up: board_wifi_softap_start has returned ESP_OK with the
\* HTTP server and the DNS task running, with or without stored credentials
InitProvisioning ==
    /\ nvs \in {EmptyNvs, SampleNvs}
    /\ lastOp = "boot"
    /\ saveArgs = [ssid |-> <<>>, password |-> <<>>]
    /\ saveFault = "none"
    /\ saveRet = "none"
    /\ cfgOut = NoCfg
    /\ erased = FALSE
    /\ softap = "active"
    /\ dnsTask = "recv"
    /\ dnsRx = <<>>
    /\ dnsGen = NoGen
    /\ dnsLen = 0
    /\ dnsOut = NoReply
    /\ dnsErrAfterStop = FALSE
    /\ httpServer = TRUE
    /\ httpLast = NoHttp
    /\ InitAudio /\ InitSess /\ StaBoot /\ WaitBoot
    /\ InitPolls /\ wsObjects = 0
    /\ bits = {}
    /\ wsLink = "none"
    /\ orchPc = "config_wait"
    /\ s_ws_client = FALSE
    /\ monitorPc = "wait"
    /\ resetTaskPc = "none"
    /\ lastRestart = "power_on"
    /\ frAsked = FALSE
    /\ softapCalled = TRUE
    /\ wsInitRes = "none"

\* the set-wifi requests of the provisioning clients
NextHttp == HttpSetWifi

SpecHttp == InitProvisioning /\ [][NextHttp]_vars

\* the provisioning server being started and stopped, and every other request
NextRoute == SoftapStart \/ SoftapStop \/ HttpOther

SpecRoute == Init /\ [][NextRoute]_vars

\* the station has joined within the wait and app_main is about to call
\* init_websocket_connection
InitLoop ==
    /\ nvs = SampleNvs
    /\ lastOp = "boot"
    /\ saveArgs = [ssid |-> <<>>, password |-> <<>>]
    /\ saveFault = "none"
    /\ saveRet = "none"
    /\ cfgOut = NoCfg
    /\ erased = FALSE
    /\ InitDns /\ InitHttp /\ InitAudio
    /\ InitPolls /\ wsObjects = 0
    /\ first_connection = TRUE
    /\ reset_timer = NoTimer
    /\ s_system_state = "WIFI_CONNECTED"
    /\ wsSent = <<>>
    /\ lastMsg = NoMsg
    /\ lastCalls = <<>>
    /\ recSeconds = 0
    /\ recMs = 0
    /\ connCount = 0
    /\ lastFired = FALSE
    /\ lastInQuiet = FALSE
    /\ lastEvent = "boot"
    /\ sinceDisc = QuietTicks + 1
    /\ sinceDown = QuietTicks + 1
    /\ s_wifi_event_group = TRUE
    /\ staBits = {WIFI_CONNECTED_BIT}
    /\ s_wifi_retry_num = 0
    /\ staHandlers = 1
    /\ staNetif = 1
    /\ staStarts = 1
    /\ staLink = "up"
    /\ evtPc = "idle"
    /\ discRun = 0
    /\ everGotIp = TRUE
    /\ lateConnect = FALSE
    /\ lastBackoff = 0
    /\ initCalls = 1
    /\ initRet = "ESP_OK"
    /\ waitPc = "returned"
    /\ waitTimeout = WaitTicks
    /\ waitLeft = WaitTicks
    /\ waitRet = "ESP_OK"
    /\ waitSnap = {WIFI_CONNECTED_BIT}
    /\ waited = TRUE
    /\ bits = {WIFI_CONNECTED_BIT}
    /\ wsLink = "none"
    /\ orchPc = "ws_init"
    /\ s_ws_client = FALSE
    /\ monitorPc = "wait"
    /\ resetTaskPc = "none"
    /\ lastRestart = "power_on"
    /\ frAsked = FALSE
    /\ softapCalled = FALSE
    /\ wsInitRes = "none"

\* the commands the backend sends while the loop supervises the session
LoopMsgs ==
    {JsonMsg("start_recording", "object", "number", 5),
     JsonMsg("play_pcm", "object", "number", 1)}

WsCommand == WsDataOn(LoopMsgs)

\* the session and the main loop of app_main that supervises it
NextLoop ==
    \/ OrchWsInit \/ OrchMainLoop
    \/ WsConnected \/ WsDisconnected \/ WsDrop \/ WsCommand

SpecLoop == InitLoop /\ [][NextLoop]_vars

\* app_main blocks only in its timed delays, so each of its steps is taken
\* once it is due; a client that has left the connected state dispatches
\* WEBSOCKET_EVENT_DISCONNECTED
SpecLoopFair ==
    /\ InitLoop /\ [][NextLoop]_vars
    /\ WF_vars(OrchWsInit) /\ WF_vars(OrchMainLoop)
    /\ WF_vars(WsDisconnected /\ wsLink = "closing")

\* a connected session: the announcement flag is false after the Connected
\* event and true again once the quiet-period timer has expired
InitData ==
    /\ InitStore /\ InitDns /\ InitHttp /\ InitAudio /\ StaBoot /\ WaitBoot /\ OrchBoot
    /\ InitPolls /\ wsObjects = 1
    /\ first_connection \in BOOLEAN
    /\ reset_timer = NoTimer
    /\ wsLink = "connected"
    /\ s_system_state = "WS_CONNECTED"
    /\ bits = {WIFI_CONNECTED_BIT, WEBSOCKET_CONNECTED_BIT}
    /\ wsSent = <<DeviceConnectedMsg>>
    /\ connCount = 1
    /\ lastFired = ~first_connection
    /\ lastInQuiet = FALSE
    /\ lastEvent = "connected"
    /\ sinceDisc = QuietTicks + 1
    /\ sinceDown = QuietTicks + 1
    /\ lastMsg = NoMsg
    /\ lastCalls = <<>>
    /\ recSeconds = 0
    /\ recMs = 0

NextData == WsData \/ WsConnected \/ WsDisconnected

SpecData == InitData /\ [][NextData]_vars

\* the whole device from power-on: the tasks of one boot and its restarts
NextOrch ==
    \/ OrchBoardInit \/ OrchFatalRestart \/ OrchStaInit \/ OrchCheckConfig
    \/ OrchWaitCall \/ OrchAfterWait \/ OrchWsInit \/ OrchMainLoop
    \/ OrchConfigMode \/ OrchConfigPoll \/ OrchConfigRestart \/ SetWifiSave
    \/ StaStart \/ StaDisconnected \/ StaGotIp \/ StaGotIpGlobal
    \/ WaitWake \/ WaitTick \/ WaitExpire
    \/ RequestFactoryReset \/ MonitorObserve \/ MonitorHandle
    \/ ResetTaskErase \/ ResetTaskRestart

SpecOrch == InitSta /\ [][NextOrch]_vars

\* app_main and board_factory_reset_task are tasks that block only in timed
\* delays, so the scheduler runs each of their steps once it is due
SpecOrchFair ==
    /\ InitSta /\ [][NextOrch]_vars
    /\ WF_vars(OrchConfigPoll) /\ WF_vars(OrchConfigRestart)
    /\ WF_vars(ResetTaskErase) /\ WF_vars(ResetTaskRestart)

\* one boot: the three waiters on event bits with the polls of their loops,
\* and the tasks that set and clear the bits
NextBits ==
    \/ OrchBoardInit \/ OrchStaInit \/ OrchCheckConfig
    \/ OrchWaitCall \/ OrchAfterWait
    \/ OrchConfigMode \/ CfgPollReturn \/ CfgPollDelay
    \/ SetWifiSave
    \/ StaStart \/ StaDisconnected \/ StaGotIp \/ StaGotIpGlobal
    \/ WaitWake \/ WaitTick \/ WaitExpire
    \/ RequestFactoryReset \/ MonPollReturn \/ MonPollDelay \/ MonitorHandle
    \/ ResetTaskErase

SpecBits == InitSta /\ [][NextBits]_vars

\* the same, with factory_reset_monitor_task, which polls the event group in
\* a timed wait
SpecBootFair ==
    /\ InitSta /\ [][NextOrch]_vars
    /\ WF_vars(OrchConfigPoll) /\ WF_vars(OrchConfigRestart)
    /\ WF_vars(ResetTaskErase) /\ WF_vars(ResetTaskRestart)
    /\ WF_vars(MonitorObserve) /\ WF_vars(MonitorHandle)


(***************************************************************************)
(* Properties                                                              *)
(***************************************************************************)
SavedPair == [ssid |-> Key(saveArgs.ssid), password |-> Key(saveArgs.password)]

\* C1: a save of an SSID of 1..32 bytes and a password of 0..64 bytes, with
\* the storage working, returns success, and board_wifi_has_valid_config
\* then returns true with exactly the saved SSID and password.
C1_RoundTrip ==
    (/\ lastOp = "save"
     /\ saveFault = "none"
     /\ Len(saveArgs.ssid) >= 1 /\ Len(saveArgs.ssid) <= 32
     /\ Len(saveArgs.password) <= 64)
    => /\ saveRet = "ESP_OK"
       /\ board_wifi_has_valid_config(nvs).ret
       /\ board_wifi_has_valid_config(nvs).ssid = saveArgs.ssid
       /\ board_wifi_has_valid_config(nvs).password = saveArgs.password

\* C2: a save with an empty SSID, an SSID longer than 32 bytes or a password
\* longer than 64 bytes fails with the validation error, leaves both
\* persisted keys as they were and does not set ConfigSaved.
C2_InvalidSaveRejected ==
    [][(/\ lastOp' = "save"
        /\ \/ Len(saveArgs'.ssid) = 0
           \/ Len(saveArgs'.ssid) > 32
           \/ Len(saveArgs'.password) > 64)
       => /\ saveRet' = "ESP_ERR_INVALID_ARG"
          /\ nvs' = nvs
          /\ bits' = bits]_vars

\* C2 witness: an over-long SSID was rejected while a configuration is stored
C2_Witness ==
    /\ lastOp = "save"
    /\ Len(saveArgs.ssid) > 32
    /\ saveRet = "ESP_ERR_INVALID_ARG"
    /\ nvs.ssid.present /\ nvs.password.present

\* C3: after any save call, also one whose storage write or commit fails,
\* the store holds both new fields or both prior fields, and ConfigSaved is
\* raised by the call exactly when it returns success.
C3_SaveAtomic ==
    [][lastOp' = "save"
       => /\ nvs' = nvs \/ nvs' = SavedPair'
          /\ saveRet' = "ESP_OK" => WIFI_CONFIG_SAVED_BIT \in bits'
          /\ saveRet' # "ESP_OK" => bits' = bits]_vars

\* C4: board_wifi_has_valid_config returns false whenever the ssid key or the
\* password key is absent, and in every state after a completed
\* factory-reset erase and before a new successful save.
C4_NoConfigAfterErase ==
    /\ (~nvs.ssid.present \/ ~nvs.password.present)
          => ~board_wifi_has_valid_config(nvs).ret
    /\ erased => ~board_wifi_has_valid_config(nvs).ret

\* a datagram has been received and handled in this iteration of the loop
DnsHandled == dnsTask = "delay"

\* C5 as stated: every well-formed query whose question is at most 64 bytes
\* long gets exactly one reply, equal to the id, the fixed header, the
\* question and the one A record.
C5_ReplyUpTo64ByteQuestion ==
    (DnsHandled /\ WellFormed(dnsGen) /\ QuestionLen(dnsGen) <= 64)
    => dnsOut = Sent(ExpectedReply(dnsGen))

\* C5 as amended: every well-formed query whose question ends at or before
\* byte offset 64 of the datagram (a question of at most 52 bytes) gets
\* exactly one reply, equal to the id, the fixed header, the question and
\* the one A record.
C5_ReplyWhenQuestionEndsBy64 ==
    (DnsHandled /\ WellFormed(dnsGen) /\ 12 + QuestionLen(dnsGen) <= 64)
    => dnsOut = Sent(ExpectedReply(dnsGen))

\* C5 witness: a query whose question ends exactly at offset 64 was answered
C5_Witness ==
    /\ DnsHandled /\ WellFormed(dnsGen)
    /\ 12 + QuestionLen(dnsGen) = 64
    /\ dnsOut.n = 1

\* C6: a receive that returns fewer than 12 bytes, zero or an error never
\* leads to a reply.
C6_ShortDatagramDropped ==
    (DnsHandled /\ dnsLen < 12) => dnsOut.n = 0

\* C6 witness: an 11-byte datagram was received and dropped
C6_Witness == DnsHandled /\ dnsLen = 11 /\ dnsOut.n = 0

\* the datagram holds no zero byte after its header
NoTerminator == \A i \in 13..Len(dnsRx) : dnsRx[i] # 0

\* the sender's question did not arrive whole
Truncated == dnsGen.term /\ dnsGen.lie = 0 /\ dnsGen.keep < 12 + QuestionLen(dnsGen)

\* the sender's question is longer than the scratch bound
TooLong == dnsGen.term /\ dnsGen.lie = 0 /\ QuestionLen(dnsGen) > 64

\* pkt is a complete reply to the received datagram: the header with the
\* request's id, a question of k bytes copied from inside the datagram and
\* ending in the zero byte, type and class, then the answer record
CompleteReply(pkt) ==
    LET k == Len(pkt) - 28
    IN  /\ k >= 5
        /\ 12 + k <= dnsLen
        /\ SubSeq(pkt, 1, 2) = SubSeq(dnsRx, 1, 2)
        /\ SubSeq(pkt, 3, 12) = <<129, 128, 0, 1, 0, 1, 0, 0, 0, 0>>
        /\ SubSeq(pkt, 13, 12 + k) = SubSeq(dnsRx, 13, 12 + k)
        /\ pkt[12 + k - 4] = 0
        /\ SubSeq(pkt, 13 + k, Len(pkt)) =
               <<192, 12, 0, 1, 0, 1, 0, 0, 0, 10, 0, 4>> \o ApIp
        /\ (dnsGen.term /\ dnsGen.lie = 0) => k = QuestionLen(dnsGen)

\* C7: for every datagram the responder sends no reply or one complete reply
\* with the whole question; a question that is too long, truncated or not
\* terminated inside the datagram is dropped.
C7_NoPartialReply ==
    DnsHandled
    => /\ dnsOut.n \in {0, 1}
       /\ dnsOut.n = 1 => CompleteReply(dnsOut.pkt)
       /\ (dnsLen >= 0 /\ (TooLong \/ Truncated \/ NoTerminator)) => dnsOut.n = 0

\* C7 witness: a complete query with a question longer than 64 bytes arrived
\* whole and was dropped
C7_Witness ==
    /\ DnsHandled /\ TooLong
    /\ dnsGen.keep = Len(FullQuery(dnsGen))
    /\ dnsOut.n = 0

\* C8: once provisioning is stopped and recvfrom has returned an error, the
\* responder task has left its loop and terminated.
C8_ErrorAfterStopExits == dnsErrAfterStop => dnsTask = "exited"

\* C9: the first Connected event after boot plays the announcement; a later
\* Connected event that comes within the quiet period of the Disconnected
\* event before it (here even: of the start of the outage before it) does
\* not play it, whatever happened earlier.
C9_OnboardingOnce ==
    /\ connCount = 1 => lastFired
    /\ (connCount > 1 /\ lastInQuiet) => ~lastFired

\* C10: SessionUp and SessionDown are never both set; after a Connected event
\* SessionUp is set and SessionDown clear, after a Disconnected event
\* SessionUp is clear and SessionDown set.
C10_BitsComplementary ==
    /\ ~({WEBSOCKET_CONNECTED_BIT, WEBSOCKET_DISCONNECTED_BIT} \subseteq bits)
    /\ lastEvent = "connected"
          => (WEBSOCKET_CONNECTED_BIT \in bits /\ WEBSOCKET_DISCONNECTED_BIT \notin bits)
    /\ lastEvent = "disconnected"
          => (WEBSOCKET_CONNECTED_BIT \notin bits /\ WEBSOCKET_DISCONNECTED_BIT \in bits)

\* C11 as stated: with N = BOARD_WIFI_MAX_RETRY, after exactly N consecutive
\* disconnect events with no IP acquisition WifiFailed is set and a wait
\* returns Failed.
C11_FailedAfterNDisconnects ==
    (discRun = BOARD_WIFI_MAX_RETRY /\ ~everGotIp)
        => /\ WIFI_FAIL_BIT \in staBits
           /\ WaitResult(staBits \cap StaWaitBits) = "ESP_FAIL"

\* C11: WifiFailed is set by disconnect event N + 1 of a run without IP
\* acquisition and not before; from then on the radio is left idle, no
\* disconnect handler calls esp_wifi_connect, and a wait returns Failed when
\* no address was acquired since init.
C11_FailedAfterRetries ==
    /\ discRun <= BOARD_WIFI_MAX_RETRY => WIFI_FAIL_BIT \notin staBits
    /\ discRun > BOARD_WIFI_MAX_RETRY
           => /\ WIFI_FAIL_BIT \in staBits
              /\ WIFI_FAIL_BIT \in bits
              /\ staLink = "idle"
    /\ (discRun > BOARD_WIFI_MAX_RETRY /\ ~everGotIp)
           => WaitResult(staBits \cap StaWaitBits) = "ESP_FAIL"
    /\ ~lateConnect

C11_Witness ==
    /\ discRun = BOARD_WIFI_MAX_RETRY + 2
    /\ ~everGotIp
    /\ waitPc = "returned" /\ waitRet = "ESP_FAIL"

\* C12: board_wifi_sta_wait_connected returns ESP_ERR_INVALID_STATE without
\* waiting when the station manager was never initialised; otherwise it returns
\* ESP_OK when WIFI_CONNECTED_BIT is set at the end of the wait, ESP_FAIL when
\* only WIFI_FAIL_BIT is, and ESP_ERR_TIMEOUT when neither is, which happens
\* only for a non-zero timeout that has run out.
C12_WaitResult ==
    /\ (waitPc = "returned" /\ ~s_wifi_event_group)
           => (waitRet = "ESP_ERR_INVALID_STATE" /\ ~waited)
    /\ (waitPc = "returned" /\ ~waited) => waitRet = "ESP_ERR_INVALID_STATE"
    /\ (waitPc = "returned" /\ waited)
           => /\ WIFI_CONNECTED_BIT \in waitSnap => waitRet = "ESP_OK"
              /\ waitSnap = {WIFI_FAIL_BIT} => waitRet = "ESP_FAIL"
              /\ waitSnap = {} => /\ waitRet = "ESP_ERR_TIMEOUT"
                                  /\ waitTimeout # 0
                                  /\ waitLeft = 0
    /\ waitPc = "waiting" => s_wifi_event_group
    /\ (waitPc = "waiting" /\ waitTimeout = 0) => waitLeft = 0

C12_Witness ==
    /\ waitPc = "returned" /\ waited
    /\ waitSnap = StaWaitBits
    /\ waitRet = "ESP_OK"

\* C13: a second call of board_wifi_sta_init after a successful one returns
\* success and leaves one registration of the handler, one station interface
\* and at most one join.
C13_InitIdempotent ==
    (initCalls = 2 /\ staHandlers > 0)
        => /\ initRet = "ESP_OK"
           /\ staHandlers = 1
           /\ staNetif = 1
           /\ staStarts <= 1

InProvisioning == orchPc \in {"config_wait", "config_saved"}

\* C14: in the provisioning branch SoftAP provisioning has been started, the
\* orchestrator leaves its waiting loop only on seeing WIFI_CONFIG_SAVED_BIT and
\* restarts only from there; and once the bit is set while it waits, the
\* device restarts.
C14_RestartAfterConfigSaved ==
    /\ [](InProvisioning => softapCalled)
    /\ [][(orchPc = "config_wait" /\ orchPc' = "config_saved")
              => WIFI_CONFIG_SAVED_BIT \in bits]_vars
    /\ [][(lastRestart' = "config_saved" /\ orchPc # "boot" /\ orchPc' = "boot")
              => orchPc = "config_saved"]_vars
    /\ ((orchPc = "config_wait" /\ WIFI_CONFIG_SAVED_BIT \in bits)
            ~> orchPc = "boot")

C14_Witness ==
    /\ orchPc = "boot" /\ lastRestart = "config_saved"
    /\ board_wifi_has_valid_config(nvs).ret

\* C15: after board_wifi_sta_wait_connected has returned ESP_FAIL or
\* ESP_ERR_TIMEOUT the orchestrator is in the provisioning branch, with state
\* WIFI_CONFIG and board_wifi_softap_start called once it waits for
\* WIFI_CONFIG_SAVED_BIT, and no session object is created in that boot.
C15_FallbackToProvisioning ==
    (waitPc = "returned" /\ waitRet \in {"ESP_FAIL", "ESP_ERR_TIMEOUT"}
        /\ orchPc # "wait")
        => /\ orchPc \in {"config_mode", "config_wait", "config_saved"}
           /\ wsInitRes = "none" /\ ~s_ws_client /\ wsLink = "none"
           /\ InProvisioning => softapCalled
           /\ (InProvisioning /\ ~frAsked) => s_system_state = "WIFI_CONFIG"

C15_Witness ==
    /\ orchPc = "config_wait"
    /\ waitPc = "returned" /\ waitRet = "ESP_ERR_TIMEOUT"
    /\ softapCalled /\ s_system_state = "WIFI_CONFIG"

\* C16: when board_wifi_sta_wait_connected has returned ESP_OK and neither
\* board_websocket_init nor board_websocket_start failed, the orchestrator's
\* init_websocket_connection has created and started the session client by
\* the time app_main is in its main loop.
C16_ConnectedStartsSession ==
    (orchPc = "main_loop" /\ waitRet = "ESP_OK"
        /\ wsInitRes \notin {"init_fail", "start_fail"})
        => wsInitRes = "started"

\* C18: a boot that follows a factory reset finds no valid credentials and no
\* event bit set.
C18_ResetErasesCredentials ==
    (orchPc = "boot" /\ lastRestart = "factory_reset")
        => /\ ~board_wifi_has_valid_config(nvs).ret
           /\ bits = {}

\* C17: every WEBSOCKET_EVENT_CONNECTED sends exactly one message, the
\* device_connected message carrying BOARD_WS_DEVICE_CLIENT_ID, whether or not
\* the announcement was played.
C17_DeviceConnectedSent ==
    lastEvent = "connected"
        => /\ Len(wsSent) = 1
           /\ wsSent[1].event = "device_connected"
           /\ wsSent[1].id = BOARD_WS_DEVICE_CLIENT_ID

C17_Witness ==
    /\ lastEvent = "connected" /\ ~lastFired /\ connCount >= 2
    /\ wsSent = <<DeviceConnectedMsg>>

Max(a, b) == IF a > b THEN a ELSE b

StartRecordingMsg(m) ==
    m.len > 0 /\ m.json /\ m.event = "start_recording"

Dropped(m) ==
    \/ m.len = 0
    \/ ~m.json
    \/ m.event \in {"absent", "number"}
    \/ m.event \notin {"start_recording", "restart", "play_pcm"}

\* C20: a WEBSOCKET_EVENT_DATA whose payload is not valid JSON, has no string
\* event field or names an unknown event sends nothing, calls neither the
\* recorder, the player nor esp_restart, and leaves s_system_state, the event
\* bits and first_connection as they were.
C20_UnknownDropped ==
    [][(lastEvent' = "data" /\ Dropped(lastMsg'))
          => /\ wsSent' = <<>>
             /\ lastCalls' = <<>>
             /\ recSeconds' = 0 /\ recMs' = 0
             /\ UNCHANGED <<s_system_state, bits, first_connection, wsLink>>]_vars

C20_Witness ==
    /\ lastEvent = "data"
    /\ lastMsg.json /\ lastMsg.event = "ping"
    /\ lastMsg.data = "object" /\ lastMsg.field = "number"
    /\ wsSent = <<>> /\ lastCalls = <<>>
    /\ first_connection

\* the last request ran the set-wifi handler on a body that arrived
SetWifiHandled ==
    /\ httpLast.handler = "set_wifi"
    /\ httpLast.rcv = "data"
    /\ httpLast.body.form # "empty"

\* C21: a POST /api/set-wifi with body ssid=S&password=P, S of 1..32 bytes and
\* P of 0..64 bytes, with the storage working, is answered with status "ok",
\* and board_wifi_has_valid_config then returns true with S and P in which
\* every '+' is replaced by a space.
C21_SetWifiStoresDecoded ==
    (/\ SetWifiHandled
     /\ httpLast.body.form = "ssid_pass"
     /\ saveFault = "none"
     /\ Len(httpLast.body.s) >= 1 /\ Len(httpLast.body.s) <= 32
     /\ Len(httpLast.body.p) <= 64)
    => /\ httpLast.status = "ok"
       /\ board_wifi_has_valid_config(nvs) =
              [ret |-> TRUE, ssid |-> PlusToSpace(httpLast.body.s),
               password |-> PlusToSpace(httpLast.body.p)]

\* the ssid field of body g is missing, empty or too long, or its password
\* field is too long
BadFields(g) ==
    \/ g.form = "pass_only"
    \/ Len(g.s) = 0
    \/ Len(g.s) > 32
    \/ Len(g.p) > 64

\* C22: a POST /api/set-wifi whose ssid field is missing, empty or longer
\* than 32 bytes, or whose password field is longer than 64 bytes, is answered
\* with status "error", changes neither the stored keys nor the event bits,
\* and makes no write past the handler's field buffers.
C22_BadSetWifiRejected ==
    [][(/\ httpLast'.n # httpLast.n
        /\ SetWifiHandled'
        /\ BadFields(httpLast'.body))
       => /\ httpLast'.status = "error"
          /\ nvs' = nvs
          /\ bits' = bits
          /\ ~httpLast'.overflow]_vars

\* the three routes with a handler of their own
OwnRoutes == {<<"GET", "/">>, <<"GET", "/api/device-info">>,
              <<"POST", "/api/set-wifi">>}

\* C28: every request whose method and path is not GET /, GET
\* /api/device-info or POST /api/set-wifi is handled by
\* captive_portal_handler, which answers with a redirect to the root.
C28_WildcardCatchesAll ==
    (httpLast.method # "none" /\ <<httpLast.method, httpLast.path>> \notin OwnRoutes)
        => /\ httpLast.handler = "captive_portal"
           /\ httpLast.status \in {captive_portal_handler(ua) : ua \in UserAgents}

\* C23: reset_connection_timer_cb sets first_connection only while the
\* session is disconnected and has been so for the whole quiet period; it
\* never runs while the session is connected.
C23_NoResetWhileConnected ==
    lastEvent = "timer"
        => /\ wsLink = "disconnected"
           /\ sinceDown >= QuietTicks

\* C24: a session that is disconnected becomes connected again or gets
\* first_connection set to true, also when further Disconnected events
\* arrive during the outage.
C24_OutageResetsFlag ==
    (wsLink = "disconnected") ~> (first_connection \/ wsLink # "disconnected")

\* the longest delay the retry policy can ask for
BackoffCap == BackoffBaseMs * Pow2(BOARD_WIFI_MAX_RETRY - 1)

\* C25: a disconnect handler that reconnects is handling one of the first
\* N = BOARD_WIFI_MAX_RETRY disconnects since the last IP acquisition and has
\* slept 500 ms * 2^k before attempt k (k = 0..N-1), at most 8000 ms; the retry
\* counter never exceeds N and is 0 right after an IP acquisition.
C25_BackoffDoubles ==
    [][/\ (discRun' = discRun + 1 /\ staLink' = "connecting")
           => /\ discRun < BOARD_WIFI_MAX_RETRY
              /\ lastBackoff' = 500 * (2 ^ discRun)
              /\ lastBackoff' <= BackoffCap
       /\ (discRun' = discRun + 1 /\ staLink' # "connecting")
           => discRun >= BOARD_WIFI_MAX_RETRY
       /\ s_wifi_retry_num' <= BOARD_WIFI_MAX_RETRY
       /\ (staLink # "up" /\ staLink' = "up") => s_wifi_retry_num' = 0]_vars

C25_Witness ==
    /\ everGotIp /\ staLink = "connecting"
    /\ s_wifi_retry_num = BOARD_WIFI_MAX_RETRY
    /\ lastBackoff = 8000

\* C26: once the session manager has been initialised, whenever the main
\* loop finds no session object, or one that reports itself disconnected,
\* it eventually destroys and recreates the session (or the session has
\* connected by itself in the meantime).
C26_LoopRecreates ==
    (orchPc = "main_loop" /\ (~s_ws_client \/ wsLink # "connected"))
        ~> (orchPc = "ws_reinit" \/ wsLink = "connected")

\* C27: the supervisory poll destroys the session object only when it reports
\* disconnected without a Disconnected event; never while it is still
\* connecting after start() or waiting for the native reconnect after a
\* Disconnected event.
C27_PollSparesLiveSessions ==
    [][(orchPc = "main_loop" /\ orchPc' = "ws_reinit")
        => wsLink \notin {"connecting", "disconnected"}]_vars

\* C29: when the provisioning service failed to start (the SoftAP radio or
\* the HTTP server did not come up), the orchestrator does not stay in the
\* wait for ConfigSaved for ever: the device restarts.
C29_FatalInitRestarts ==
    (orchPc = "config_wait" /\ ~httpServer) ~> (orchPc = "boot")

\* C30: over any sequence of start_recording commands the recording buffer
\* size is shrunk at most once, so it is never below half the configured
\* size, and a command that leaves the buffer unallocated has not called the
\* recorder.
C30_ShrunkAtMostOnce ==
    /\ s_audio_buffer_size >= BOARD_AUDIO_BUFFER_SIZE \div 2
    /\ (lastEvent = "data" /\ Dispatch(lastMsg) = "start_recording"
            /\ ~s_audio_buffer)
        => \A i \in 1..Len(lastCalls) : lastCalls[i] # "record"

\* C31: a stored valid configuration stops being valid only in the erase step
\* of the factory-reset task: no step of board init, station init,
\* provisioning or session handling removes or invalidates it.
C31_ErasedOnlyByFactoryReset ==
    [][(board_wifi_has_valid_config(nvs).ret
            /\ ~board_wifi_has_valid_config(nvs').ret)
        => resetTaskPc = "run"]_vars

\* C32: the tasks share state only through the event bits, the inbound
\* messages and the credential store: in no state are two tasks about to
\* touch the same variable of main.c with one of them writing it.
C32_NoSharedVariable == Races = {}

\* C33: no missed wakeup. A wait of the provisioning loop or of the monitor
\* that returns while its bit is set observes it, and a wait of
\* board_wifi_sta_wait_connected that returns while WifiConnected or
\* WifiFailed is set does not report a timeout; a bit that is set stays set
\* until its waiter has observed it, unless the factory-reset task clears
\* the bits or the device restarts.
C33_NoMissedWakeup ==
    [][/\ (cfgPoll # "delay" /\ cfgPoll' = "delay")
            => WIFI_CONFIG_SAVED_BIT \notin bits
       /\ (monPoll # "delay" /\ monPoll' = "delay")
            => FACTORY_RESET_BIT \notin bits
       /\ (waitPc = "waiting" /\ waitPc' = "returned"
                /\ staBits \cap StaWaitBits # {})
            => waitRet' \in {"ESP_OK", "ESP_FAIL"}
       /\ (WIFI_CONFIG_SAVED_BIT \in bits /\ WIFI_CONFIG_SAVED_BIT \notin bits')
            => (resetTaskPc = "run" \/ orchPc' = "boot")
       /\ (FACTORY_RESET_BIT \in bits /\ FACTORY_RESET_BIT \notin bits')
            => (monitorPc' = "handle" \/ resetTaskPc = "run" \/ orchPc' = "boot")
       /\ (staBits \cap StaWaitBits) \subseteq staBits' \/ orchPc' = "boot"]_vars

\* the provisioning loop has seen the bit in a wait that followed a timed-out
\* wait and the delay, and a station wait has returned a bit set before it began
C33_Witness ==
    /\ orchPc = "config_saved" /\ cfgPoll = "wait"
    /\ WIFI_CONFIG_SAVED_BIT \in bits

\* C34: at most one session object exists at any time, and it is the one
\* s_ws_client points to; init_websocket_connection creates and starts
\* nothing while the handle is held.
C34_OneSession ==
    /\ wsObjects <= 1
    /\ s_ws_client <=> wsObjects = 1
    /\ \A out \in WsInitOutcomes :
          LET r == init_websocket_connection(bits, TRUE, out)
          IN  r.client /\ ~r.started /\ r.res \in {"exists", "no_wifi"}

\* a session object created by the main loop after it destroyed the one
\* that had been connected
C34_Witness ==
    /\ orchPc = "main_loop" /\ s_ws_client /\ wsObjects = 1
    /\ wsLink = "connecting" /\ connCount >= 1

\* C35: whenever the session is connected, with WEBSOCKET_CONNECTED_BIT set,
\* and no handler is running, s_system_state is WS_CONNECTED, also after a
\* start_recording or play_pcm command has been handled.
C35_StateIsSessionUp ==
    (wsLink = "connected" /\ WEBSOCKET_CONNECTED_BIT \in bits)
        => s_system_state = "WS_CONNECTED"

\* positions of the messages named e in the outbox of the last handler run
SentAt(e) == {i \in 1..Len(wsSent) : wsSent[i].event = e}

\* C36: in every state in which WIFI_CONFIG_SAVED_BIT is set the store holds
\* a configuration that board_wifi_has_valid_config accepts.
C36_SavedBitMeansValid ==
    WIFI_CONFIG_SAVED_BIT \in bits => board_wifi_has_valid_config(nvs).ret

\* C37: for every start_recording command the recording_started
\* acknowledgement is sent, and it is sent before the record_complete
\* message of the same command.
C37_AckBeforeComplete ==
    (lastEvent = "data" /\ Dispatch(lastMsg) = "start_recording")
        => /\ SentAt("recording_started") # {}
           /\ \A i \in SentAt("recording_started"), j \in SentAt("record_complete") :
                 i < j

\* C39: no station event clears a bit of s_wifi_event_group (only a reset of
\* the chip empties it), and a wait that returns with WIFI_CONNECTED_BIT and
\* WIFI_FAIL_BIT both set returns ESP_OK: a join that succeeded and later
\* ran out of retries is still reported as connected.
C39_BitsStickConnectedWins ==
    [][/\ (staBits \subseteq staBits') \/ initCalls' = 0
       /\ (waitPc = "waiting" /\ waitPc' = "returned"
                /\ StaWaitBits \subseteq staBits)
            => waitRet' = "ESP_OK"
       /\ (everGotIp /\ initCalls' # 0) => WIFI_CONNECTED_BIT \in staBits']_vars

\* a wait has returned ESP_OK after the station had joined, lost the link
\* and used up its retries
C39_Witness ==
    /\ everGotIp /\ staLink = "idle"
    /\ staBits = StaWaitBits
    /\ waitPc = "returned" /\ waitRet = "ESP_OK" /\ waitSnap = StaWaitBits

\* C40: for every received datagram of 0..128 bytes, whatever its bytes
\* (length bytes up to 255 included), every index the handler reads from
\* rx_buffer lies in 0..127, every index it writes in domain lies in 0..63
\* and in response in 0..127, and a reply is at most 80 bytes long.
C40_IndicesInBounds ==
    DnsHandled
    => LET a == DnsAccess(dnsRx, dnsLen)
       IN  /\ dnsLen <= DnsRxSize
           /\ a.rx \subseteq 0..(DnsRxSize - 1)
           /\ a.dom \subseteq 0..(DomainSize - 1)
           /\ a.resp \subseteq 0..(DnsResponseSize - 1)
           /\ dnsOut.n = 1 => /\ Len(dnsOut.pkt) <= 80
                              /\ a.resp = 0..(Len(dnsOut.pkt) - 1)

\* C40 witness: a full buffer of 128 bytes whose length bytes are 255 was
\* handled, and the name extraction filled domain up to its last index
C40_Witness ==
    /\ DnsHandled /\ dnsLen = DnsRxSize
    /\ Rx(dnsRx, DnsHeaderLen) = 255
    /\ (DomainSize - 1) \in DnsAccess(dnsRx, dnsLen).dom

====
